---- MODULE Spec2Model ----
(***************************************************************************)
(* Model of scaffoldfitter's step pipeline (class Fitter, fitter.py) and   *)
(* of the Align step (fitterstepalign.py).                                 *)
(*                                                                         *)
(* Step objects are identified by the integers 1..MaxSteps, each of a      *)
(* fixed class (StepClass).  A step object that belongs to no pipeline and *)
(* has not run is in the state its constructor leaves it in, so it stands  *)
(* for a newly constructed step wherever the code constructs one.  Step    *)
(* objects are never destroyed: a step dropped from the pipeline by        *)
(* decodeSettingsJSON keeps its back-reference to the fitter.              *)
(* The model geometry is the sequence of the geometry-changing step runs   *)
(* applied to the model coordinates since they were last read from file.   *)
(***************************************************************************)
EXTENDS Integers, Sequences, FiniteSets, TLC

\* Number of step objects that exist.
MaxSteps == 3
\* Longest list of step records in a settings string given to decodeSettingsJSON.
MaxDecode == 2
\* Most step effects the geometry may carry (bounds retries of a failing step).
MaxGeom == 3

StepIds == 1..MaxSteps
NoStep == 0
Variants == {"Config", "Align", "Fit"}

\* The class of each step object: Config, Align, Config, Align, Fit, Config, ...
StepClass(id) ==
    CASE id % 5 \in {1, 3} -> "Config"
      [] id % 5 \in {2, 4} -> "Align"
      [] OTHER -> "Fit"

StepTypes == [id \in StepIds |-> StepClass(id)]

VARIABLES
    fitterSteps,   \* Fitter._fitterSteps: sequence of step ids
    stepFitter,    \* FitterStep._fitter is not None
    stepHasRun,    \* FitterStep._hasRun
    loaded,        \* the region, fieldmodule and coordinate fields exist
    geometry,      \* step effects applied to the model coordinates since load
    call,          \* the last operation: its arguments, outcome and sub-calls
    settings,      \* the fitter's field and group names and its diagnostic level
    stepAlign,     \* the settings of each Align step object
    scene,         \* the model and data in the region: groups, elements, markers, points
    autoAlign,     \* the last FitterStepAlign._doAutoAlign: its point map and outcome
    sample,        \* the last data-proportion sampling: the points taken
    penalties,     \* per-element strain and curvature penalties and the active groups
    markerLocations, \* the marker data location group
    projections,   \* the data projection groups, the active data and the groups met
    written,       \* the name of the model coordinates field and the last writeModel
    search,        \* the last discrete rotation search of _optimiseAlignment
    offsets        \* the last identifier offsetting of _loadData

\* The variables besides those of the step pipeline.
settingsVars == <<settings, stepAlign>>
restVars == <<written, search, offsets>>
dataVars == <<scene, autoAlign, sample, penalties, markerLocations, projections, restVars>>
otherVars == <<settingsVars, dataVars>>
pipelineVars == <<fitterSteps, stepFitter, stepHasRun, loaded, geometry, call>>

\* No region has been read, and no operation on it made.
NoScene == [kind |-> "none"]
NotCalled == [called |-> FALSE]

\* Nothing written, searched or offset.
RestIdle == written = NotCalled /\ search = NotCalled /\ offsets = NotCalled

vars == <<fitterSteps, stepFitter, stepHasRun, loaded, geometry, call, otherVars>>

----------------------------------------------------------------------------
(* Sequence helpers                                                        *)

Range(s) == {s[i] : i \in 1..Len(s)}

\* list.index(x): position of x in s (1-based), 0 when x is not in s.
IndexOf(s, x) ==
    IF x \in Range(s) THEN CHOOSE i \in 1..Len(s) : s[i] = x /\ \A j \in 1..(i - 1) : s[j] # x
    ELSE 0

\* list.insert(pos, x) with pos counted as the number of elements before x.
InsertAt(s, pos, x) == SubSeq(s, 1, pos) \o <<x>> \o SubSeq(s, pos + 1, Len(s))

\* list.remove(x) for x at position i.
RemoveAt(s, i) == SubSeq(s, 1, i - 1) \o SubSeq(s, i + 1, Len(s))

\* The record kept of one operation.
Call(op, step, ref, retStep, retBool, raised, trace) ==
    [op |-> op, step |-> step, ref |-> ref, retStep |-> retStep, retBool |-> retBool,
     raised |-> raised, trace |-> trace]

LoadEvent == <<"load", NoStep>>
RunEvent(id) == <<"run", id>>

----------------------------------------------------------------------------
(* Backward-scanning lookups                                               *)

RECURSIVE ScanAnyConfigOrSameType(_, _, _, _)
\* ScanSameType with an isinstance-style test that a Config step always passes.
ScanAnyConfigOrSameType(steps, types, index, refType) ==
    IF index < 1 THEN NoStep
    ELSE IF types[steps[index]] \in {refType, "Config"} THEN steps[index]
    ELSE ScanAnyConfigOrSameType(steps, types, index - 1, refType)

RECURSIVE ScanSameType(_, _, _, _)
\* Loop of getInheritFitterStep: for index in range(start, -1, -1).
ScanSameType(steps, types, index, refType) ==
    IF index < 1 THEN NoStep
    ELSE IF types[steps[index]] = refType THEN steps[index]
    ELSE ScanSameType(steps, types, index - 1, refType)

RECURSIVE ScanConfig(_, _, _)
\* Loop of getInheritFitterStepConfig and getActiveFitterStepConfig.
ScanConfig(steps, types, index) ==
    IF index < 1 THEN NoStep
    ELSE IF types[steps[index]] = "Config" THEN steps[index]
    ELSE ScanConfig(steps, types, index - 1)

GetInheritFitterStep(steps, types, ref) ==
    ScanSameType(steps, types, IndexOf(steps, ref) - 1, types[ref])

GetInheritFitterStepConfig(steps, types, ref) ==
    ScanConfig(steps, types, IndexOf(steps, ref) - 1)

\* NoStep stands for reaching "assert False, Could not find config".
GetActiveFitterStepConfig(steps, types, ref) ==
    ScanConfig(steps, types, IndexOf(steps, ref))

----------------------------------------------------------------------------
(* Running steps.  A machine record m carries what a run reads and writes: *)
(* hasRun (per step object), geometry, loaded, the trace of sub-calls made *)
(* so far, whether an exception is propagating, and the return value.      *)

Machine(hasRun, geom, isLoaded) ==
    [hasRun |-> hasRun, geometry |-> geom, loaded |-> isLoaded,
     trace |-> <<>>, raised |-> FALSE, ret |-> FALSE]

Raise(m) == [m EXCEPT !.raised = TRUE]

SetHasRun(m, id, flag) == [m EXCEPT !.hasRun[id] = flag]

\* calculateDataProjections(step): asserts that the coordinate fields exist, then
\* looks up the step's active config; raises when either is missing.
CalculateDataProjections(m, steps, types, id) ==
    IF ~m.loaded THEN Raise(m)
    ELSE IF GetActiveFitterStepConfig(steps, types, id) = NoStep THEN Raise(m)
    ELSE m

\* FitterStepConfig.run: recomputes the data projections, then sets hasRun.
ConfigRun(m, steps, types, id) ==
    LET p == CalculateDataProjections(m, steps, types, id)
    IN  IF p.raised THEN p ELSE SetHasRun(p, id, TRUE)

\* FitterStepAlign.run: asserts the model coordinates exist, assigns the
\* transformed coordinates to the model, recomputes the projections, writes the
\* intermediate model file when asked to (writeFails: that write fails), and
\* only then sets hasRun.
AlignRun(m, steps, types, id, writeFails) ==
    IF ~m.loaded THEN Raise(m)
    ELSE LET t == [m EXCEPT !.geometry = Append(@, id)]
             p == CalculateDataProjections(t, steps, types, id)
         IN  IF p.raised THEN p
             ELSE IF writeFails THEN Raise(p)
             ELSE SetHasRun(p, id, TRUE)

\* FitterStepFit.run: deforms the model coordinates, recomputes the projections,
\* then sets hasRun.
FitRun(m, steps, types, id) ==
    IF ~m.loaded THEN Raise(m)
    ELSE LET t == [m EXCEPT !.geometry = Append(@, id)]
             p == CalculateDataProjections(t, steps, types, id)
         IN  IF p.raised THEN p ELSE SetHasRun(p, id, TRUE)

\* step.run() for the step object id; nothing happens once an exception propagates.
\* failStep is the Align step whose intermediate model write fails (NoStep: none).
StepRun(m, steps, types, id, failStep) ==
    IF m.raised THEN m
    ELSE LET c == [m EXCEPT !.trace = Append(@, RunEvent(id))]
         IN  CASE types[id] = "Config" -> ConfigRun(c, steps, types, id)
               [] types[id] = "Align" -> AlignRun(c, steps, types, id, id = failStep)
               [] OTHER -> FitRun(c, steps, types, id)

\* Fitter.load: rebuilds region, model and data, clears hasRun of every step of
\* the pipeline, then runs the first step.
FitterLoad(m, steps, types) ==
    LET r == [m EXCEPT !.trace = Append(@, LoadEvent),
                       !.geometry = <<>>,
                       !.loaded = TRUE,
                       !.hasRun = [id \in DOMAIN m.hasRun |->
                                      IF id \in Range(steps) THEN FALSE ELSE m.hasRun[id]]]
    IN  IF Len(steps) = 0 THEN Raise(r)
        ELSE StepRun(r, steps, types, steps[1], NoStep)

RECURSIVE RunRangeAlways(_, _, _, _, _, _, _)
\* RunRange without the hasRun test of the incremental loop.
RunRangeAlways(m, steps, types, from, to, skipRun, failStep) ==
    IF from > to \/ m.raised THEN m
    ELSE RunRangeAlways(StepRun(m, steps, types, steps[from], failStep),
                        steps, types, from + 1, to, skipRun, failStep)

RECURSIVE RunRange(_, _, _, _, _, _, _)
\* for index in range(from, to + 1): run the step (skipRun: only if it has not
\* run).  Indices are those of the model's 1-based sequence.
RunRange(m, steps, types, from, to, skipRun, failStep) ==
    IF from > to \/ m.raised THEN m
    ELSE LET id == steps[from]
             n == IF skipRun /\ m.hasRun[id] THEN m
                  ELSE StepRun(m, steps, types, id, failStep)
         IN  RunRange(n, steps, types, from + 1, to, skipRun, failStep)

\* NeedReload with the bound on endIndex off by one.
NeedReloadOffByOne(m, steps, endIndex) ==
    /\ m.hasRun[steps[endIndex]]
    /\ endIndex < Len(steps) - 1
    /\ m.hasRun[steps[endIndex + 1]]

\* The reload test of Fitter.run; endIndex is the 1-based position of endStep.
NeedReload(m, steps, endIndex) ==
    /\ m.hasRun[steps[endIndex]]
    /\ endIndex < Len(steps)
    /\ m.hasRun[steps[endIndex + 1]]

\* FitterRun returning True after the forced re-run of the first step.
FitterRunTrueOnRerun(m, steps, types, endIndex, failStep) ==
    IF NeedReload(m, steps, endIndex)
    THEN LET l == FitterLoad(m, steps, types)
             r == RunRange(l, steps, types, 2, endIndex, FALSE, failStep)
         IN  IF r.raised THEN r ELSE [r EXCEPT !.ret = TRUE]
    ELSE IF endIndex = 1
    THEN LET r == StepRun(m, steps, types, steps[endIndex], NoStep)
         IN  IF r.raised THEN r ELSE [r EXCEPT !.ret = TRUE]
    ELSE RunRange(m, steps, types, 2, endIndex, TRUE, failStep)

\* FitterRun without the special case of the first step.
FitterRunNoForce(m, steps, types, endIndex, failStep) ==
    IF NeedReload(m, steps, endIndex)
    THEN LET l == FitterLoad(m, steps, types)
             r == RunRange(l, steps, types, 2, endIndex, FALSE, failStep)
         IN  IF r.raised THEN r ELSE [r EXCEPT !.ret = TRUE]
    ELSE RunRange(m, steps, types, 2, endIndex, TRUE, failStep)

\* Fitter.run(endStep, modelFileNameStem) with endStep at 1-based position
\* endIndex.  The forced re-run of the first step is given no file name stem, so
\* no intermediate model is written there.
FitterRun(m, steps, types, endIndex, failStep) ==
    IF NeedReload(m, steps, endIndex)
    THEN LET l == FitterLoad(m, steps, types)
             r == RunRange(l, steps, types, 2, endIndex, FALSE, failStep)
         IN  IF r.raised THEN r ELSE [r EXCEPT !.ret = TRUE]
    ELSE IF endIndex = 1
    THEN StepRun(m, steps, types, steps[endIndex], NoStep)
    ELSE RunRange(m, steps, types, 2, endIndex, TRUE, failStep)

----------------------------------------------------------------------------
(* The pipeline's list operations                                          *)

\* AddStep inserting before ref instead of after it.
AddStepBefore(steps, step, ref) ==
    IF ref # NoStep THEN InsertAt(steps, IndexOf(steps, ref) - 1, step)
    ELSE Append(steps, step)

\* addFitterStep's change of the list: insert after ref, or append when ref is None.
AddStep(steps, step, ref) ==
    IF ref # NoStep THEN InsertAt(steps, IndexOf(steps, ref), step)
    ELSE Append(steps, step)

\* removeFitterStep's change of the list.
RemoveStep(steps, step) == RemoveAt(steps, IndexOf(steps, step))

\* RemoveReturn always giving the step before the removed one.
RemoveReturnPrevious(steps, step) == steps[IndexOf(steps, step) - 1]

\* removeFitterStep's return value: the step now at the removed step's place, or
\* the last step when that place is past the end.
RemoveReturn(steps, step) ==
    LET index == IndexOf(steps, step)
        rest == RemoveStep(steps, step)
    IN  IF index > Len(rest) THEN rest[Len(rest)] ELSE rest[index]

\* Fitter.addFitterStep(step, ref): the assertion fails when the step has a
\* fitter; otherwise the step joins the list and gets the fitter.
FitterAddFitterStep(steps, fitter, step, ref) ==
    IF fitter[step]
    THEN [steps |-> steps, fitter |-> fitter, raised |-> TRUE, ret |-> NoStep]
    ELSE [steps |-> AddStep(steps, step, ref),
          fitter |-> [fitter EXCEPT ![step] = TRUE],
          raised |-> FALSE, ret |-> NoStep]

\* Fitter.removeFitterStep(step): raises when the list is empty (IndexError),
\* when step is the first step (assertion) or is not in the list (ValueError).
FitterRemoveFitterStep(steps, fitter, step) ==
    IF Len(steps) = 0 \/ step = steps[1] \/ step \notin Range(steps)
    THEN [steps |-> steps, fitter |-> fitter, raised |-> TRUE, ret |-> NoStep]
    ELSE [steps |-> RemoveStep(steps, step),
          fitter |-> [fitter EXCEPT ![step] = FALSE],
          raised |-> FALSE, ret |-> RemoveReturn(steps, step)]

\* FitterStepAlign.__init__: the settings of a new Align step.
DefaultAlign ==
    [alignGroups |-> FALSE, alignMarkers |-> FALSE, rotation |-> <<0, 0, 0>>,
     scale |-> 1, translation |-> <<0, 0, 0>>]

\* Step objects in the state their constructor leaves them in.
Fresh ==
    {id \in StepIds : ~stepFitter[id] /\ ~stepHasRun[id] /\ stepAlign[id] = DefaultAlign}

RECURSIVE NewSteps(_, _)
\* What the decoder builds from the step records: for each record in turn a new
\* step of the record's class (the smallest fresh object of that class), added at
\* the end of the fitter's list.  <<NoStep>> when the objects run out.
NewSteps(free, records) ==
    IF Len(records) = 0 THEN <<>>
    ELSE LET fit == {id \in free : StepClass(id) = Head(records)}
         IN  IF fit = {} THEN <<NoStep>>
             ELSE LET id == CHOOSE x \in fit : \A y \in fit : x <= y
                  IN  <<id>> \o NewSteps(free \ {id}, Tail(records))

\* Sequences of step records a settings string may hold.
StepRecords == UNION {[1..n -> Variants] : n \in 0..MaxDecode}

DecodeOutcomes == {"ok", "malformed", "missingKey"}

\* The test decodeSettingsJSON makes of the decoded list.
HasInitialConfig(steps, types) == Len(steps) > 0 /\ types[steps[1]] = "Config"

\* decodeSettingsJSON keeping the decoded list whatever it holds.
FitterDecodeNoRestore(steps, fitter, new, outcome) ==
    [steps |-> new,
     fitter |-> [id \in DOMAIN fitter |-> id \in Range(new) \/ fitter[id]],
     raised |-> outcome # "ok" \/ ~HasInitialConfig(new, StepTypes),
     ret |-> NoStep]

\* Fitter.decodeSettingsJSON(s, decoder).  new is the list the decoder has built
\* from the step records of s (each step constructed and added to the fitter)
\* when json.loads returns or raises; outcome tells which: "ok" (s parsed),
\* "malformed" (json.loads raised), "missingKey" (s parsed, no diagnosticLevel).
FitterDecodeSettingsJSON(steps, fitter, new, outcome) ==
    LET valid == HasInitialConfig(new, StepTypes)
    IN  [steps |-> IF outcome = "malformed" \/ valid THEN new ELSE steps,
         fitter |-> [id \in DOMAIN fitter |-> id \in Range(new) \/ fitter[id]],
         raised |-> outcome # "ok" \/ ~valid,
         ret |-> NoStep]

----------------------------------------------------------------------------
(* Settings and their JSON serialisation                                   *)

\* Python values of the name attributes: None or a string.
PyNone == <<"NoneType">>
PyStr(str) == <<"str", str>>

\* Fitter.__init__: the names are None and the diagnostic level is 0.
DefaultSettings ==
    [modelCoordinatesField |-> PyNone, dataCoordinatesField |-> PyNone,
     fibreField |-> PyNone, markerGroup |-> PyNone, diagnosticLevel |-> 0]

\* JSON text, by the kind of each value.
JsonNull == <<"null">>
JsonBool(b) == IF b THEN <<"true">> ELSE <<"false">>
JsonNumber(n) == <<"number", n>>
JsonString(str) == <<"string", str>>
JsonArray(items) == <<"array", items>>
JsonObject(members) == <<"object", members>>

\* json.dumps of the values the settings hold.
DumpsName(v) == IF v = PyNone THEN JsonNull ELSE JsonString(v[2])
DumpsNumbers(list) == JsonArray([i \in 1..Len(list) |-> JsonNumber(list[i])])

\* json.loads of a value that is no object; an array holds numbers.
Loads(j) ==
    CASE j[1] = "null" -> PyNone
      [] j[1] = "string" -> PyStr(j[2])
      [] j[1] = "true" -> TRUE
      [] j[1] = "false" -> FALSE
      [] j[1] = "number" -> j[2]
      [] j[1] = "array" -> [i \in 1..Len(j[2]) |-> j[2][i][2]]

\* A dict is the sequence of its <<key, value>> items in insertion order.
Keys(dct) == {dct[i][1] : i \in 1..Len(dct)}
Item(dct, key) == dct[CHOOSE i \in 1..Len(dct) : dct[i][1] = key][2]
\* dct.update(other): the keys dct holds keep their places and take other's
\* values; other's new keys follow in other's order.
Update(dct, other) ==
    LET IsNew(item) == item[1] \notin Keys(dct)
    IN  [i \in 1..Len(dct) |-> <<dct[i][1], IF dct[i][1] \in Keys(other)
                                            THEN Item(other, dct[i][1])
                                            ELSE dct[i][2]>>]
            \o SelectSeq(other, IsNew)

\* The dict json.loads makes of a JSON object whose values are no objects.
LoadsObject(j) == [i \in 1..Len(j[2]) |-> <<j[2][i][1], Loads(j[2][i][2])>>]

\* The key that tells a step's class in its dict.
JsonTypeId(variant) ==
    CASE variant = "Config" -> "_FitterStepConfig"
      [] variant = "Align" -> "_FitterStepAlign"
      [] variant = "Fit" -> "_FitterStepFit"

\* FitterStep.encodeSettingsJSONDict: the dict every step class starts from.
StepEncodeSettingsJSONDict(variant) == << <<JsonTypeId(variant), TRUE>> >>

\* FitterStepAlign.encodeSettingsJSONDict
AlignEncodeSettingsJSONDict(a) ==
    Update(StepEncodeSettingsJSONDict("Align"),
           << <<"alignGroups", a.alignGroups>>, <<"alignMarkers", a.alignMarkers>>,
              <<"rotation", a.rotation>>, <<"scale", a.scale>>,
              <<"translation", a.translation>> >>)

\* FitterStepAlign.decodeSettingsJSONDict, with the rotation and the translation
\* taken from each other's key.
AlignDecodeSwapped(a, dctIn) ==
    LET dct == Update(AlignEncodeSettingsJSONDict(a), dctIn)
    IN  [alignGroups |-> Item(dct, "alignGroups"), alignMarkers |-> Item(dct, "alignMarkers"),
         rotation |-> Item(dct, "translation"), scale |-> Item(dct, "scale"),
         translation |-> Item(dct, "rotation")]

\* FitterStepAlign.decodeSettingsJSONDict: keys absent from dctIn keep the
\* step's present values.
AlignDecodeSettingsJSONDict(a, dctIn) ==
    LET dct == Update(AlignEncodeSettingsJSONDict(a), dctIn)
    IN  [alignGroups |-> Item(dct, "alignGroups"), alignMarkers |-> Item(dct, "alignMarkers"),
         rotation |-> Item(dct, "rotation"), scale |-> Item(dct, "scale"),
         translation |-> Item(dct, "translation")]

\* A step by value: its class and, for an Align step, its settings.
StepValue(variant, a) == [variant |-> variant, align |-> a]

\* The dict a step encodes itself to.
StepEncode(value) ==
    IF value.variant = "Align" THEN AlignEncodeSettingsJSONDict(value.align)
    ELSE StepEncodeSettingsJSONDict(value.variant)

\* json.dumps of a step's dict: each value by its Python type.
DumpsStep(dct) ==
    JsonObject([i \in 1..Len(dct) |->
        <<dct[i][1],
          CASE dct[i][1] \in {"rotation", "translation"} -> DumpsNumbers(dct[i][2])
            [] dct[i][1] = "scale" -> JsonNumber(dct[i][2])
            [] OTHER -> JsonBool(dct[i][2])>>])

\* Fitter.encodeSettingsJSON for the names and level sett and the steps values.
FitterEncodeSettingsJSON(sett, values) ==
    JsonObject(<<
        <<"modelCoordinatesField", DumpsName(sett.modelCoordinatesField)>>,
        <<"dataCoordinatesField", DumpsName(sett.dataCoordinatesField)>>,
        <<"fibreField", DumpsName(sett.fibreField)>>,
        <<"markerGroup", DumpsName(sett.markerGroup)>>,
        <<"diagnosticLevel", JsonNumber(sett.diagnosticLevel)>>,
        <<"fitterSteps",
          JsonArray([i \in 1..Len(values) |-> DumpsStep(StepEncode(values[i]))])>> >>)

\* The dicts of the step records of a settings text, in document order.
StepDicts(text) ==
    IF "fitterSteps" \in Keys(text[2])
    THEN LET items == Item(text[2], "fitterSteps")[2]
         IN  [i \in 1..Len(items) |-> LoadsObject(items[i])]
    ELSE <<>>

\* The decoder: a new step of the class the dict names, which decodes the dict.
DecodeJSONFitterStep(dctIn) ==
    LET variant == CHOOSE v \in Variants : JsonTypeId(v) \in Keys(dctIn)
    IN  StepValue(variant, IF variant = "Align"
                           THEN AlignDecodeSettingsJSONDict(DefaultAlign, dctIn)
                           ELSE DefaultAlign)

\* settings.get(key) on the dict json.loads returns for the text.
SettingsGet(text, key) == IF key \in Keys(text[2]) THEN Loads(Item(text[2], key)) ELSE PyNone

\* json.loads returns.
NoFail == 0 - 1

\* json.loads of a text on which it raises after the decoder has handled stop
\* step records, or returns (stop = NoFail): the steps the decoder has made.
DecodedSteps(text, stop) ==
    LET dicts == StepDicts(text)
        done == IF stop = NoFail THEN dicts ELSE SubSeq(dicts, 1, stop)
    IN  [i \in 1..Len(done) |-> DecodeJSONFitterStep(done[i])]

VariantsOf(values) == [i \in 1..Len(values) |-> values[i].variant]

DecodeOutcome(text, stop) ==
    IF stop # NoFail THEN "malformed"
    ELSE IF "diagnosticLevel" \in Keys(text[2]) THEN "ok" ELSE "missingKey"

\* The names and the level decodeSettingsJSON reads from the text; the level is
\* read last, and only a text that holds it gets that far.
ReadSettings(sett, text, outcome) ==
    [modelCoordinatesField |-> SettingsGet(text, "modelCoordinatesField"),
     dataCoordinatesField |-> SettingsGet(text, "dataCoordinatesField"),
     fibreField |-> SettingsGet(text, "fibreField"),
     markerGroup |-> SettingsGet(text, "markerGroup"),
     diagnosticLevel |-> IF outcome = "ok" THEN SettingsGet(text, "diagnosticLevel")
                         ELSE sett.diagnosticLevel]

\* The names and level after decodeSettingsJSON: read when the decoded list starts
\* with a Config step.
DecodeSettings(sett, text, new, outcome) ==
    IF outcome # "malformed" /\ HasInitialConfig(new, StepTypes)
    THEN ReadSettings(sett, text, outcome)
    ELSE sett

\* Fitter.decodeSettingsJSON(text, decoder) from a state st of the fitter and
\* its steps, the new step objects being taken from free.
FitterDecode(st, free, text, stop) ==
    LET values == DecodedSteps(text, stop)
        new == NewSteps(free, VariantsOf(values))
        outcome == DecodeOutcome(text, stop)
        r == FitterDecodeSettingsJSON(st.steps, st.fitter, new, outcome)
    IN  [steps |-> r.steps, fitter |-> r.fitter, raised |-> r.raised, new |-> new,
         settings |-> DecodeSettings(st.settings, text, new, outcome),
         align |-> [id \in DOMAIN st.align |->
                       IF id \in Range(new) THEN values[IndexOf(new, id)].align
                       ELSE st.align[id]]]

----------------------------------------------------------------------------
(* State machine                                                           *)

\* Fitter.__init__: a pipeline of one Config step, default settings, no region.
InitFitter ==
    /\ fitterSteps = <<1>>
    /\ stepFitter = [id \in StepIds |-> id = 1]
    /\ stepHasRun = [id \in StepIds |-> FALSE]
    /\ loaded = FALSE
    /\ geometry = <<>>
    /\ call = Call("init", 1, NoStep, NoStep, FALSE, FALSE, <<>>)
    /\ settings = DefaultSettings
    /\ stepAlign = [id \in StepIds |-> DefaultAlign]

Init ==
    /\ InitFitter
    /\ scene = NoScene
    /\ autoAlign = NotCalled
    /\ sample = NotCalled
    /\ RestIdle
    /\ penalties = NotCalled
    /\ markerLocations = NotCalled
    /\ projections = NotCalled

AddFitterStep(step, ref) ==
    /\ step \in StepIds
    /\ ref \in Range(fitterSteps) \cup {NoStep}
    /\ LET r == FitterAddFitterStep(fitterSteps, stepFitter, step, ref)
       IN  /\ fitterSteps' = r.steps
           /\ stepFitter' = r.fitter
           /\ call' = Call("add", step, ref, r.ret, FALSE, r.raised, <<>>)
    /\ UNCHANGED <<stepHasRun, loaded, geometry, otherVars>>

RemoveFitterStep(step) ==
    /\ step \in StepIds
    /\ LET r == FitterRemoveFitterStep(fitterSteps, stepFitter, step)
       IN  /\ fitterSteps' = r.steps
           /\ stepFitter' = r.fitter
           /\ call' = Call("remove", step, NoStep, r.ret, FALSE, r.raised, <<>>)
    /\ UNCHANGED <<stepHasRun, loaded, geometry, otherVars>>

Load ==
    LET m == FitterLoad(Machine(stepHasRun, geometry, loaded), fitterSteps, StepTypes)
    IN  /\ stepHasRun' = m.hasRun
        /\ geometry' = m.geometry
        /\ loaded' = m.loaded
        /\ call' = Call("load", NoStep, NoStep, NoStep, FALSE, m.raised, m.trace)
        /\ UNCHANGED <<fitterSteps, stepFitter, otherVars>>

\* run(endStep, modelFileNameStem): endStep NoStep stands for None (the last
\* step); failStep names the Align step whose intermediate model write fails.
Run(endStep, failStep) ==
    /\ endStep \in StepIds \cup {NoStep}
    /\ failStep \in {NoStep} \cup {id \in Range(fitterSteps) : StepClass(id) = "Align"}
    /\ LET target == IF endStep = NoStep /\ Len(fitterSteps) > 0
                     THEN fitterSteps[Len(fitterSteps)] ELSE endStep
       IN  IF target \notin Range(fitterSteps)
           THEN /\ call' = Call("run", target, NoStep, NoStep, FALSE, TRUE, <<>>)
                /\ UNCHANGED <<stepHasRun, geometry, loaded>>
           ELSE LET m == FitterRun(Machine(stepHasRun, geometry, loaded), fitterSteps,
                                   StepTypes, IndexOf(fitterSteps, target), failStep)
                IN  /\ Len(m.geometry) <= MaxGeom
                    /\ stepHasRun' = m.hasRun
                    /\ geometry' = m.geometry
                    /\ loaded' = m.loaded
                    /\ call' = Call("run", target, NoStep, NoStep, m.ret, m.raised, m.trace)
    /\ UNCHANGED <<fitterSteps, stepFitter, otherVars>>

\* decodeSettingsJSON on a settings string holding the step records.
DecodeSettingsJSON(records, outcome) ==
    LET new == NewSteps(Fresh, records)
        r == FitterDecodeSettingsJSON(fitterSteps, stepFitter, new, outcome)
    IN  /\ NoStep \notin Range(new)
        /\ fitterSteps' = r.steps
        /\ stepFitter' = r.fitter
        /\ call' = Call("decode", NoStep, NoStep, r.ret, FALSE, r.raised, <<>>)
        /\ UNCHANGED <<stepHasRun, loaded, geometry, otherVars>>

Next ==
    \/ \E step \in StepIds, ref \in StepIds \cup {NoStep} : AddFitterStep(step, ref)
    \/ \E step \in StepIds : RemoveFitterStep(step)
    \/ Load
    \/ \E endStep \in StepIds \cup {NoStep} : Run(endStep, NoStep)
    \/ \E records \in StepRecords, outcome \in DecodeOutcomes :
           DecodeSettingsJSON(records, outcome)

Spec == Init /\ [][Next]_vars

----------------------------------------------------------------------------
(* The settings and their serialisation                                    *)

\* Settings of an Align step that the setters are given.
AlignValues ==
    {DefaultAlign,
     [alignGroups |-> TRUE, alignMarkers |-> FALSE, rotation |-> <<1, 2, 3>>,
      scale |-> 2, translation |-> <<4, 5, 6>>],
     [alignGroups |-> FALSE, alignMarkers |-> TRUE, rotation |-> <<0, 0, 1>>,
      scale |-> 3, translation |-> <<7, 0, 0>>],
     [alignGroups |-> FALSE, alignMarkers |-> FALSE, rotation |-> <<0, 2, 0>>,
      scale |-> 5, translation |-> <<1, 0, 0>>]}

\* Names and levels that settings texts hold.
SettingsValues ==
    {DefaultSettings,
     [modelCoordinatesField |-> PyStr("coordinates"),
      dataCoordinatesField |-> PyStr("data_coordinates"),
      fibreField |-> PyStr("fibres"), markerGroup |-> PyStr("marker"),
      diagnosticLevel |-> 1]}

Levels == {0, 1, 2}

\* Steps that settings texts hold.
StepValues ==
    {StepValue("Config", DefaultAlign),
     StepValue("Align", [alignGroups |-> TRUE, alignMarkers |-> TRUE,
                         rotation |-> <<3, 2, 1>>, scale |-> 4,
                         translation |-> <<0, 8, 9>>])}

\* A JSON object without the member of a key.
Without(text, key) ==
    LET HasOtherKey(member) == member[1] # key
    IN  JsonObject(SelectSeq(text[2], HasOtherKey))

\* Settings texts: those encodeSettingsJSON writes, and those that hold names
\* with a key left out.
EncodedTexts(setts) ==
    {FitterEncodeSettingsJSON(sett, values) :
        sett \in setts,
        values \in UNION {[1..n -> StepValues] : n \in 0..MaxDecode}}
SettingsTexts ==
    EncodedTexts(SettingsValues)
        \cup {Without(text, key) : text \in EncodedTexts(SettingsValues \ {DefaultSettings}),
                                   key \in {"diagnosticLevel", "markerGroup"}}

\* The fitter and its steps as decodeSettingsJSON finds them.
CurrentFitter ==
    [steps |-> fitterSteps, fitter |-> stepFitter, settings |-> settings,
     align |-> stepAlign]

\* decodeSettingsJSON(text, decoder); json.loads raises after stop step records
\* or returns (stop = NoFail).  The call records whether json.loads returned and
\* the steps the decoder added.
DecodeSettingsJSONText(text, stop) ==
    LET r == FitterDecode(CurrentFitter, Fresh, text, stop)
    IN  /\ stop \in {NoFail} \cup 0..Len(StepDicts(text))
        /\ NoStep \notin Range(NewSteps(Fresh, VariantsOf(DecodedSteps(text, stop))))
        /\ fitterSteps' = r.steps
        /\ stepFitter' = r.fitter
        /\ settings' = r.settings
        /\ stepAlign' = r.align
        /\ call' = Call("decodeText", NoStep, NoStep, NoStep, stop = NoFail, r.raised,
                        [i \in 1..Len(r.new) |-> <<"add", r.new[i]>>])
        /\ UNCHANGED <<stepHasRun, loaded, geometry, dataVars>>

\* setAlignGroups, setAlignMarkers, setRotation, setScale and setTranslation
\* of an Align step, called in turn.
SetAlignSettings(step, a) ==
    /\ StepClass(step) = "Align"
    /\ stepAlign' = [stepAlign EXCEPT ![step] = a]
    /\ call' = Call("setAlign", step, NoStep, NoStep, a # stepAlign[step], FALSE, <<>>)
    /\ UNCHANGED <<fitterSteps, stepFitter, stepHasRun, loaded, geometry, settings, dataVars>>

\* setDiagnosticLevel(level)
SetDiagnosticLevel(level) ==
    /\ settings' = IF level >= 0 THEN [settings EXCEPT !.diagnosticLevel = level]
                   ELSE settings
    /\ call' = Call("setDiagnosticLevel", NoStep, NoStep, NoStep, FALSE, level < 0, <<>>)
    /\ UNCHANGED <<fitterSteps, stepFitter, stepHasRun, loaded, geometry, stepAlign, dataVars>>

NextSettings ==
    \/ \E step \in StepIds, ref \in StepIds \cup {NoStep} : AddFitterStep(step, ref)
    \/ \E text \in SettingsTexts : \E stop \in {NoFail, Len(StepDicts(text))} :
           DecodeSettingsJSONText(text, stop)
    \/ \E step \in StepIds, a \in AlignValues : SetAlignSettings(step, a)
    \/ \E level \in Levels : SetDiagnosticLevel(level)

SpecSettings == Init /\ [][NextSettings]_vars

----------------------------------------------------------------------------
(* Properties of Fitter.run                                                *)

\* Positions of the pipeline (1-based) and what run(target) does from the
\* current state.
Positions == 1..Len(fitterSteps)
Current == Machine(stepHasRun, geometry, loaded)
RunFrom(m, index) == FitterRun(m, fitterSteps, StepTypes, index, NoStep)

\* The target at position index has run and so has some step after it.
Stale(m, index) ==
    /\ m.hasRun[fitterSteps[index]]
    /\ \E j \in (index + 1)..Len(fitterSteps) : m.hasRun[fitterSteps[j]]

\* The sub-calls of a reload followed by a replay through position index.
ReplayTrace(index) ==
    <<LoadEvent, RunEvent(fitterSteps[1])>> \o
    [i \in 1..(index - 1) |-> RunEvent(fitterSteps[i + 1])]

\* C1: whenever the target step has run and any step after it has run, run
\* reloads (load, which re-runs the first step) and then runs every step from the
\* second through the target in order.
C1_StaleTargetReloads ==
    \A index \in Positions :
        Stale(Current, index) =>
            LET m == RunFrom(Current, index)
            IN  ~m.raised => m.ret /\ m.trace = ReplayTrace(index)

\* Steps whose run changes the model coordinates.
ChangesGeometry(id) == StepClass(id) # "Config"

\* The geometry after the steps at positions 2..index ran once each, in order.
Effects(index) == SelectSeq(SubSeq(fitterSteps, 2, index), ChangesGeometry)

\* A completed run of the step at position index is the last operation.
JustRan(index) ==
    /\ call.op = "run"
    /\ ~call.raised
    /\ index \in Positions
    /\ fitterSteps[index] = call.step

\* C2 as claimed: right after run(stepK) has completed, run(stepJ) with J < K
\* reloads and replays, and on return exactly the steps up to J have hasRun set
\* and the geometry carries the effects of the steps after the first through J,
\* each once.
C2_RunEarlierRestores ==
    \A k \in Positions : JustRan(k) =>
        \A j \in 1..(k - 1) :
            LET m == RunFrom(Current, j)
            IN  ~m.raised =>
                    /\ m.ret
                    /\ m.trace = ReplayTrace(j)
                    /\ \A i \in Positions : m.hasRun[fitterSteps[i]] <=> i <= j
                    /\ m.geometry = Effects(j)

\* C2 amended: provided stepJ has run when run(stepJ) is called, the call starts
\* with a reload and, when it returns, has replayed through J and left the
\* state as claimed.
C2_RunEarlierRestoresIfRun ==
    \A k \in Positions : JustRan(k) =>
        \A j \in 1..(k - 1) :
            stepHasRun[fitterSteps[j]] =>
                LET m == RunFrom(Current, j)
                IN  /\ m.trace # <<>>
                    /\ Head(m.trace) = LoadEvent
                    /\ ~m.raised =>
                            /\ m.ret
                            /\ m.trace = ReplayTrace(j)
                            /\ \A i \in Positions : m.hasRun[fitterSteps[i]] <=> i <= j
                            /\ m.geometry = Effects(j)

\* A run that reloaded and replayed through the second of three steps, an Align
\* step, leaving the third not run.
C2_Witness ==
    /\ JustRan(2)
    /\ Len(fitterSteps) = 3
    /\ call.retBool
    /\ call.trace = ReplayTrace(2)
    /\ ~stepHasRun[fitterSteps[3]]
    /\ geometry = Effects(2)
    /\ geometry # <<>>

\* C3 as claimed: right after run(stepK) has completed, for any K, a second
\* run(stepK) calls neither load nor the run of any step.
C3_SecondRunDoesNothing ==
    \A k \in Positions : JustRan(k) => RunFrom(Current, k).trace = <<>>

\* C3 amended: the second run(stepK) does nothing when stepK is not the first
\* step and the step right after it, if any, has not run.
C3_SecondRunDoesNothingUnlessFirstOrFollowed ==
    \A k \in Positions :
        (/\ JustRan(k)
         /\ k > 1
         /\ (k = Len(fitterSteps) \/ ~stepHasRun[fitterSteps[k + 1]]))
        => LET m == RunFrom(Current, k)
           IN  m.trace = <<>> /\ ~m.raised /\ ~m.ret

\* A run of a step other than the first that found nothing to do, with a step
\* after it that has not run.
C3_Witness ==
    \E k \in Positions :
        /\ JustRan(k)
        /\ k > 1
        /\ k < Len(fitterSteps)
        /\ ~stepHasRun[fitterSteps[k + 1]]
        /\ call.trace = <<>>
        /\ ~call.retBool

\* C4: a run that returns, returns True if and only if it called load.
C4_ReturnsTrueIffReloaded ==
    (call.op = "run" /\ ~call.raised) =>
        (call.retBool <=> LoadEvent \in Range(call.trace))

\* A forced re-run of the first step, which returned False without a reload.
C4_Witness ==
    /\ JustRan(1)
    /\ call.trace = <<RunEvent(fitterSteps[1])>>
    /\ stepHasRun[fitterSteps[1]]
    /\ ~call.retBool

\* The steps at positions 2..index that have not run, in pipeline order.
NotRun(id) == ~stepHasRun[id]
Pending(index) == SelectSeq(SubSeq(fitterSteps, 2, index), NotRun)

\* C5: when the target is not stale, run(first step) runs that step whatever its
\* hasRun flag; run of a later target runs exactly the steps after the first
\* through the target that have not run, in order, and on return each of them
\* has hasRun set and the result is False.
C5_IncrementalRun ==
    \A index \in Positions :
        ~Stale(Current, index) =>
            LET m == RunFrom(Current, index)
                pending == Pending(index)
            IN  IF index = 1
                THEN m.trace = <<RunEvent(fitterSteps[1])>> /\ ~m.ret
                ELSE ~m.raised =>
                        /\ m.trace = [i \in 1..Len(pending) |-> RunEvent(pending[i])]
                        /\ \A i \in 2..index : m.hasRun[fitterSteps[i]]
                        /\ ~m.ret

\* A run through the third step that skipped the second, which had already run.
C5_Witness ==
    /\ JustRan(3)
    /\ call.trace = <<RunEvent(fitterSteps[3])>>
    /\ ~call.retBool
    /\ stepHasRun[fitterSteps[2]]
    /\ stepHasRun[fitterSteps[3]]

----------------------------------------------------------------------------
(* Properties of the step list                                             *)

\* C6: the step list is never empty and its first element is a Config step.
C6_InitialConfigAlways == HasInitialConfig(fitterSteps, StepTypes)

\* The steps of old other than skip keep their relative order in new.
SameOrder(old, new, skip) ==
    \A a, b \in Range(old) \ {skip} :
        IndexOf(old, a) < IndexOf(old, b) <=> IndexOf(new, a) < IndexOf(new, b)

\* C7: removeFitterStep of the first step fails and changes nothing; of another
\* step of the pipeline it removes that step only, keeps the order of the rest,
\* clears the step's fitter and returns the step that followed it, or the one
\* before it when it was last.
C7_RemoveFitterStep ==
    [][(call'.op = "remove" /\ call'.step \in Range(fitterSteps)) =>
        LET step == call'.step
            index == IndexOf(fitterSteps, step)
        IN  IF index = 1
            THEN /\ call'.raised
                 /\ fitterSteps' = fitterSteps
                 /\ stepFitter' = stepFitter
            ELSE /\ ~call'.raised
                 /\ Len(fitterSteps') = Len(fitterSteps) - 1
                 /\ Range(fitterSteps') = Range(fitterSteps) \ {step}
                 /\ SameOrder(fitterSteps, fitterSteps', step)
                 /\ stepFitter' = [stepFitter EXCEPT ![step] = FALSE]
                 /\ call'.retStep = IF index < Len(fitterSteps)
                                    THEN fitterSteps[index + 1]
                                    ELSE fitterSteps[index - 1]
                 /\ stepHasRun' = stepHasRun]_vars

\* A removal from the middle of the pipeline, which returned the step that
\* followed the removed one.
C7_Witness ==
    /\ call.op = "remove"
    /\ ~call.raised
    /\ Len(fitterSteps) = 2
    /\ call.retStep = fitterSteps[2]
    /\ ~stepFitter[call.step]
    /\ call.step \notin Range(fitterSteps)

\* C8: addFitterStep of a step that has a fitter fails and changes nothing;
\* otherwise the step lands right after ref, or at the end when ref is None,
\* the other steps keep their order and every hasRun flag, and the step's fitter
\* is set.
C8_AddFitterStep ==
    [][call'.op = "add" =>
        LET step == call'.step
            ref == call'.ref
        IN  IF stepFitter[step]
            THEN /\ call'.raised
                 /\ fitterSteps' = fitterSteps
                 /\ stepFitter' = stepFitter
                 /\ stepHasRun' = stepHasRun
            ELSE /\ ~call'.raised
                 /\ Len(fitterSteps') = Len(fitterSteps) + 1
                 /\ Range(fitterSteps') = Range(fitterSteps) \cup {step}
                 /\ IndexOf(fitterSteps', step) =
                        IF ref # NoStep THEN IndexOf(fitterSteps, ref) + 1
                        ELSE Len(fitterSteps) + 1
                 /\ SameOrder(fitterSteps, fitterSteps', NoStep)
                 /\ stepFitter' = [stepFitter EXCEPT ![step] = TRUE]
                 /\ stepHasRun' = stepHasRun]_vars

\* A step added after the first of two steps that had both run.
C8_Witness ==
    /\ call.op = "add"
    /\ ~call.raised
    /\ Len(fitterSteps) = 3
    /\ call.ref = fitterSteps[1]
    /\ call.step = fitterSteps[2]
    /\ stepHasRun[fitterSteps[1]]
    /\ stepHasRun[fitterSteps[3]]
    /\ stepFitter[call.step]

\* Positions before step's whose step is of the same class as step.
SameClassBefore(step) ==
    {i \in 1..(IndexOf(fitterSteps, step) - 1) : StepClass(fitterSteps[i]) = StepClass(step)}

\* Positions up to and including step's that hold a Config step.
ConfigUpTo(step) ==
    {i \in 1..IndexOf(fitterSteps, step) : StepClass(fitterSteps[i]) = "Config"}

Last(positions) == CHOOSE i \in positions : \A j \in positions : j <= i

C10_ActiveConfigAlwaysFound ==
    \A step \in Range(fitterSteps) :
        LET found == GetActiveFitterStepConfig(fitterSteps, StepTypes, step)
        IN  /\ found # NoStep
            /\ found = fitterSteps[Last(ConfigUpTo(step))]
----------------------------------------------------------------------------
(* Claims about the settings, checked under SpecSettings                   *)

\* The first step a settings text holds is no Config step, or it holds none.
NoInitialConfig(values) == Len(values) = 0 \/ values[1].variant # "Config"

\* C11: decodeSettingsJSON on a well-formed settings text whose step list is
\* empty or starts with a step that is no Config step raises and leaves the fitter
\* as it was: the same steps in the same order, holding the same settings, and the
\* same four names and diagnostic level.
C11_InvalidSettingsLeaveFitterUnchanged ==
    \A text \in SettingsTexts :
        LET values == DecodedSteps(text, NoFail)
        IN  (NoInitialConfig(values) /\ NoStep \notin Range(NewSteps(Fresh, VariantsOf(values)))) =>
                LET r == FitterDecode(CurrentFitter, Fresh, text, NoFail)
                IN  /\ r.raised
                    /\ r.steps = fitterSteps
                    /\ r.settings = settings
                    /\ \A id \in Range(fitterSteps) : r.align[id] = stepAlign[id]

\* C11 witness: a well-formed text that starts with an Align record has just been
\* decoded on a fitter with two steps or more and a diagnostic level that is not
\* the default; the call raised and the new Align step is not in the pipeline.
C11_Witness ==
    /\ call.op = "decodeText"
    /\ call.retBool
    /\ call.raised
    /\ call.trace # <<>>
    /\ StepClass(call.trace[1][2]) = "Align"
    /\ call.trace[1][2] \notin Range(fitterSteps)
    /\ Len(fitterSteps) >= 2
    /\ settings.diagnosticLevel # 0

\* The steps of the pipeline by value.
CurrentValues ==
    [i \in 1..Len(fitterSteps) |->
        StepValue(StepTypes[fitterSteps[i]], stepAlign[fitterSteps[i]])]

\* Decoding the text the fitter encodes itself to reproduces the names, the
\* level and the steps, and these encode to the same text.
RoundTrip ==
    LET text == FitterEncodeSettingsJSON(settings, CurrentValues)
        values == DecodedSteps(text, NoFail)
        sett == ReadSettings(DefaultSettings, text, DecodeOutcome(text, NoFail))
    IN  /\ sett = settings
        /\ values = CurrentValues
        /\ FitterEncodeSettingsJSON(sett, values) = text

\* C12: from every state of the fitter, decodeSettingsJSON(encodeSettingsJSON())
\* succeeds and reproduces the four names, the diagnostic level, the number,
\* order and class of the steps and each Align step's settings, and encoding the
\* decoded fitter yields the same text.
C12_RoundTrip ==
    /\ ~NoInitialConfig(CurrentValues)
    /\ RoundTrip

\* C12, set apart from the pipelines that lack an initial Config step: the
\* round trip reproduces the settings of every fitter.
C12_RoundTripReproduces == RoundTrip

\* A pipeline with an Align step whose settings are not the default ones, names
\* that are set and a level that is not 0.
C12_Witness ==
    /\ Len(fitterSteps) >= 2
    /\ StepClass(fitterSteps[1]) = "Config"
    /\ StepClass(fitterSteps[2]) = "Align"
    /\ stepAlign[fitterSteps[2]] # DefaultAlign
    /\ settings.markerGroup # PyNone
    /\ settings.diagnosticLevel # 0

----------------------------------------------------------------------------
(* Automatic alignment of an Align step (FitterStepAlign._doAutoAlign)     *)

\* Most groups in a region.
MaxGroups == 3

\* The name of the i-th group of a region.
GroupName(i) ==
    CASE i = 1 -> "G1" [] i = 2 -> "G2" [] i = 3 -> "G3" [] i = 4 -> "G4" [] OTHER -> "G5"

\* name.strip().casefold() of the marker names in use.
MatchName(name) ==
    CASE name \in {"A", "a ", " a"} -> "a"
      [] name \in {"B", "b", "b "} -> "b"
      [] name \in {"C", " c"} -> "c"
      [] name \in {"D", "d"} -> "d"
      [] name \in {" ", "  "} -> ""
      [] OTHER -> name

Min(set) == CHOOSE x \in set : \A y \in set : x <= y

RECURSIVE MatchPairs(_, _, _)
\* The loop over the model marker names: each takes the first data marker name
\* left that matches it; the matched data name is dropped only when diagnostics
\* are written (pop).  The pairs of a model name and its data name.
MatchPairs(modelNames, dataNames, pop) ==
    IF Len(modelNames) = 0 THEN {}
    ELSE LET matchName == MatchName(Head(modelNames))
             hits == {i \in 1..Len(dataNames) : MatchName(dataNames[i]) = matchName}
         IN  IF hits = {} THEN MatchPairs(Tail(modelNames), dataNames, pop)
             ELSE {<<Head(modelNames), dataNames[Min(hits)]>>}
                      \cup MatchPairs(Tail(modelNames),
                                      IF pop THEN RemoveAt(dataNames, Min(hits))
                                      ELSE dataNames, pop)

\* The model names that found a match.
MatchMarkers(modelNames, dataNames, pop) ==
    {pair[1] : pair \in MatchPairs(modelNames, dataNames, pop)}

\* The groups that give a pair: those with data points and a mesh group.
GroupPairs(sc) ==
    {sc.groups[i].name : i \in {j \in 1..Len(sc.groups) : sc.groups[j].data /\ sc.groups[j].mesh}}

\* _optimiseAlignment's test of the point map, wanting two points.
EnoughPointsTwo(pointMap) == Cardinality(pointMap) >= 2

\* _optimiseAlignment's test of the point map.
EnoughPoints(pointMap) == Cardinality(pointMap) >= 3

\* _doAutoAlign for the settings a on the region sc: the names in the point map,
\* whether it raised and why.  solverOk: the optimisation succeeds.
DoAutoAlign(a, sc, writeDiagnostics, solverOk) ==
    LET groupPairs == IF a.alignGroups THEN GroupPairs(sc) ELSE {}
        noMarkers == a.alignMarkers /\ ~sc.markerGroup
        markerPairs == IF a.alignMarkers /\ sc.markerGroup
                       THEN MatchMarkers(sc.modelMarkers, sc.dataMarkers, writeDiagnostics)
                       ELSE {}
        pointMap == groupPairs \cup markerPairs
        cause == IF noMarkers THEN "markerGroup"
                 ELSE IF ~EnoughPoints(pointMap) THEN "points"
                 ELSE IF ~solverOk THEN "solver" ELSE "none"
    IN  [called |-> TRUE, alignGroups |-> a.alignGroups, alignMarkers |-> a.alignMarkers,
         pointMap |-> pointMap, groupPairs |-> groupPairs, markerPairs |-> markerPairs,
         unmatched |-> (IF a.alignGroups THEN Len(sc.groups) - Cardinality(groupPairs) ELSE 0)
                       + (IF a.alignMarkers
                          THEN Len(sc.modelMarkers) - Cardinality(markerPairs) ELSE 0),
         raised |-> cause # "none", cause |-> cause]

\* The transformation the optimisation arrives at.
Solved(a) == [a EXCEPT !.rotation = <<1, 0, 0>>, !.scale = 2, !.translation = <<1, 1, 1>>]

\* Regions: u groups with data and mesh followed by groups lacking one of them,
\* and markers in the model and in the data.
AlignGroupLists ==
    {[i \in 1..MaxGroups |-> [name |-> GroupName(i), data |-> i <= u \/ i % 2 = 1,
                              mesh |-> i <= u \/ i % 2 = 0]] : u \in 0..MaxGroups}
ModelMarkerLists ==
    {<<>>, <<"A", "B", "C">>, <<"A", "B", "C", "D">>, <<"A", "a ", "B">>, <<"G1", "B">>}
DataMarkerLists ==
    {<<>>, <<"a ", "b", " c">>, <<"a ", "B">>, <<"A", "B", "C", "e">>, <<"G1", "b">>}
AlignScenes ==
    {[kind |-> "align", groups |-> g, markerGroup |-> mg, modelMarkers |-> mm,
      dataMarkers |-> dm] :
        g \in AlignGroupLists, mg \in BOOLEAN, mm \in ModelMarkerLists, dm \in DataMarkerLists}

\* A loaded fitter with a Config step that has run and an Align step.
InitAutoAlign ==
    /\ fitterSteps = <<1, 2>>
    /\ stepFitter = [id \in StepIds |-> id \in {1, 2}]
    /\ stepHasRun = [id \in StepIds |-> id = 1]
    /\ loaded = TRUE
    /\ geometry = <<>>
    /\ call = Call("load", NoStep, NoStep, NoStep, FALSE, FALSE, <<LoadEvent, RunEvent(1)>>)
    /\ \E level \in {0, 1} : settings = [DefaultSettings EXCEPT !.diagnosticLevel = level]
    /\ \E groups \in BOOLEAN, markers \in BOOLEAN :
           stepAlign = [id \in StepIds |->
                           IF id = 2 THEN [DefaultAlign EXCEPT !.alignGroups = groups,
                                                               !.alignMarkers = markers]
                           ELSE DefaultAlign]
    /\ scene \in AlignScenes
    /\ autoAlign = NotCalled
    /\ sample = NotCalled
    /\ RestIdle
    /\ penalties = NotCalled
    /\ markerLocations = NotCalled
    /\ projections = NotCalled

\* The stored transformation when _optimiseAlignment assigns it before it
\* asserts the result of the optimisation.
AlignAssignedBeforeAssert(a, r) ==
    IF r.raised /\ r.cause # "solver" THEN a ELSE Solved(a)

\* The stored transformation after _doAutoAlign: replaced only when the
\* optimisation succeeded.
AlignAfterSolve(a, r) == IF r.raised THEN a ELSE Solved(a)

\* A stage of FitterStepAlign.run with the transformation stored at that time.
Stage(name, a) ==
    [stage |-> name, rotation |-> a.rotation, scale |-> a.scale,
     translation |-> a.translation]

\* The stages with hasRun set before the model is transformed.
AlignStagesHasRunFirst(auto, a) ==
    (IF auto THEN <<Stage("solve", a)>> ELSE <<>>)
        \o <<Stage("hasRun", a), Stage("transform", a), Stage("reference", a),
             Stage("projections", a)>>

\* The stages of FitterStepAlign.run that went through, in the order of the
\* statements; a is the transformation stored after the solve.
AlignStages(auto, a) ==
    (IF auto THEN <<Stage("solve", a)>> ELSE <<>>)
        \o <<Stage("transform", a), Stage("reference", a), Stage("projections", a),
             Stage("hasRun", a)>>

\* FitterStepAlign.run() of a step in the pipeline: the automatic alignment when
\* the step asks for it, then the transformation of the model, the projections
\* and hasRun.
RunAlign(step, solverOk) ==
    LET a == stepAlign[step]
        auto == a.alignGroups \/ a.alignMarkers
        r == DoAutoAlign(a, scene, settings.diagnosticLevel > 0, solverOk)
        m == AlignRun(Machine(stepHasRun, geometry, loaded), fitterSteps, StepTypes,
                      step, FALSE)
    IN  /\ step \in Range(fitterSteps)
        /\ StepClass(step) = "Align"
        /\ loaded
        /\ IF auto /\ r.raised
           THEN /\ autoAlign' = r
                /\ stepAlign' = [stepAlign EXCEPT ![step] = AlignAfterSolve(a, r)]
                /\ call' = Call("runAlign", step, NoStep, NoStep, FALSE, TRUE, <<>>)
                /\ UNCHANGED <<stepHasRun, geometry>>
           ELSE /\ Len(m.geometry) <= MaxGeom
                /\ autoAlign' = IF auto THEN r ELSE NotCalled
                /\ stepAlign' = IF auto
                                THEN [stepAlign EXCEPT ![step] = AlignAfterSolve(a, r)]
                                ELSE stepAlign
                /\ stepHasRun' = m.hasRun
                /\ geometry' = m.geometry
                /\ call' = Call("runAlign", step, NoStep, NoStep, FALSE, m.raised,
                                IF m.raised THEN <<>>
                                ELSE AlignStages(auto, IF auto THEN AlignAfterSolve(a, r)
                                                       ELSE a))
        /\ UNCHANGED <<fitterSteps, stepFitter, loaded, settings, scene, restVars, sample,
                       penalties, markerLocations, projections>>

NextAutoAlign ==
    \/ \E step \in StepIds, solverOk \in BOOLEAN : RunAlign(step, solverOk)
    \/ \E step \in StepIds, a \in AlignValues : SetAlignSettings(step, a)

SpecAutoAlign == InitAutoAlign /\ [][NextAutoAlign]_vars

C13_UnmatchedTolerated ==
    /\ autoAlign.called
    /\ Cardinality(autoAlign.pointMap) >= 3
    /\ autoAlign.unmatched > 0
    /\ ~autoAlign.raised

----------------------------------------------------------------------------
(* Data-proportion sampling (Fitter.calculateGroupDataProjections)         *)

\* Most data points in a group.
MaxPoints == 8
\* Proportions are the multiples of 1 / SampleDen from 0 to 1.
SampleDen == 8

\* dataProportionCounter after one more point, in units of 1 / (2 * SampleDen),
\* never reduced.
NextCounterKept(counter, num) == counter + 2 * num

\* dataProportionCounter after one more point, in units of 1 / (2 * SampleDen):
\* the proportion is added and 1.0 taken off once 1.0 is reached.
NextCounter(counter, num) ==
    IF counter + 2 * num >= 2 * SampleDen THEN counter + 2 * num - 2 * SampleDen
    ELSE counter + 2 * num

\* The points of a group of n, in iteration order, that the loop takes when the
\* proportion is num / SampleDen; the counter starts at 0.5.
Accepted(n, num) ==
    LET counter[i \in 0..n] == IF i = 0 THEN SampleDen ELSE NextCounter(counter[i - 1], num)
    IN  {i \in 1..n : counter[i - 1] + 2 * num >= 2 * SampleDen}

\* Python's round(num * n / SampleDen): to the nearest integer, halves to even.
Round(n, num) ==
    LET q == (num * n) \div SampleDen
        r == (num * n) % SampleDen
    IN  IF 2 * r < SampleDen THEN q
        ELSE IF 2 * r > SampleDen THEN q + 1
        ELSE IF q % 2 = 0 THEN q ELSE q + 1

SampleScenes ==
    {[kind |-> "sample", points |-> n, proportion |-> num] :
        n \in 0..MaxPoints, num \in 0..SampleDen}

InitSampling ==
    /\ InitFitter
    /\ scene \in SampleScenes
    /\ autoAlign = NotCalled
    /\ sample = NotCalled
    /\ RestIdle
    /\ penalties = NotCalled
    /\ markerLocations = NotCalled
    /\ projections = NotCalled

\* The sampling loop of calculateGroupDataProjections over the group's points;
\* the points taken by the call before are kept for comparison.
SampleGroup ==
    /\ scene.kind = "sample"
    /\ sample' = [called |-> TRUE,
                  accepted |-> Accepted(scene.points, scene.proportion),
                  runs |-> IF sample.called THEN 2 ELSE 1,
                  previous |-> IF sample.called THEN sample.accepted ELSE {}]
    /\ UNCHANGED <<pipelineVars, settingsVars, scene, restVars, autoAlign, penalties,
                   markerLocations, projections>>

NextSampling == SampleGroup

SpecSampling == InitSampling /\ [][NextSampling]_vars

Distance(a, b) == IF a >= b THEN a - b ELSE b - a

\* C14: for N points and a proportion p in [0, 1] the sampling loop takes a
\* number of points within 1 of round(p * N), all of them when p = 1 and none
\* when p = 0, and a repeated run over the same points takes the same points.
C14_SamplingWithinOneOfRound ==
    sample.called =>
        /\ Distance(Cardinality(sample.accepted), Round(scene.points, scene.proportion)) <= 1
        /\ scene.proportion = SampleDen => sample.accepted = 1..scene.points
        /\ scene.proportion = 0 => sample.accepted = {}
        /\ sample.runs = 2 => sample.accepted = sample.previous

\* C14 witness: a repeated run over several points with a proportion strictly
\* between 0 and 1 that takes some points, leaves some, and takes one point more
\* or less than round(p * N).
C14_Witness ==
    /\ sample.called
    /\ sample.runs = 2
    /\ scene.points >= 3
    /\ sample.accepted # {}
    /\ sample.accepted # 1..scene.points
    /\ Cardinality(sample.accepted) # Round(scene.points, scene.proportion)

----------------------------------------------------------------------------
(* Deformation penalties (Fitter.assignDeformationPenalties)               *)

\* Most elements of the highest dimension mesh.
MaxElements == 3
\* Most groups with penalty settings.
MaxPenaltyGroups == 2

Elements == 1..MaxElements

\* What getGroupStrainPenalty and getGroupCurvaturePenalty return for a group:
\* the value, and whether it is set locally ("true"), not set locally ("false")
\* or reset locally ("none"), and whether an earlier step has set it.
Penalty(value, setLocally, inheritable) ==
    [value |-> value, setLocally |-> setLocally, inheritable |-> inheritable]

\* any((s > 0.0) for s in penalty), counting every component that is not zero.
NonZeroAnySign(tensor) == \E i \in 1..Len(tensor) : tensor[i] # 0

\* any((s > 0.0) for s in penalty)
NonZero(tensor) == \E i \in 1..Len(tensor) : tensor[i] > 0

\* setLocally or ((setLocally is False) and inheritable)
IsSet(penalty) ==
    penalty.setLocally = "true" \/ (penalty.setLocally = "false" /\ penalty.inheritable)

\* The truth value of a penalty where any zero tensor counts as false.
TruthyNonZero(tensor) == tensor # PyNone /\ NonZeroAnySign(tensor)

\* The truth value Python gives a penalty: None and the empty list are false.
Truthy(tensor) == tensor # PyNone /\ Len(tensor) > 0

\* The list of groups the element loop scans: the groups with elements of the
\* mesh, in the order of the region, then the default group (None).
PenaltyGroups(sc, config) ==
    LET HasElements(i) == sc.groups[i] # {}
        used == SelectSeq([i \in 1..Len(sc.groups) |-> i], HasElements)
    IN  [k \in 1..Len(used) |->
            [group |-> TRUE, elements |-> sc.groups[used[k]],
             strain |-> config.groups[used[k]].strain,
             curvature |-> config.groups[used[k]].curvature]]
        \o << [group |-> FALSE, elements |-> {},
               strain |-> config.default.strain, curvature |-> config.default.curvature] >>

RECURSIVE ScanGroups(_, _, _)
\* The loop over the groups for one element: the first group that holds the
\* element and has the penalty set gives it, the default group otherwise.
ScanGroups(groups, element, found) ==
    IF Len(groups) = 0 THEN found
    ELSE LET g == Head(groups)
             holds == ~g.group \/ element \in g.elements
             strain == IF holds /\ ~Truthy(found.strain) /\ (IsSet(g.strain) \/ ~g.group)
                       THEN g.strain.value ELSE found.strain
             curvature == IF holds /\ ~Truthy(found.curvature)
                             /\ (IsSet(g.curvature) \/ ~g.group)
                          THEN g.curvature.value ELSE found.curvature
         IN  ScanGroups(Tail(groups), element,
                        [strain |-> strain, curvature |-> curvature])

\* removeAllElements() leaving the group as it is.
ActiveKept(group) == group

\* removeAllElements()
ActiveCleared(group) == {}

\* The mesh before any penalty is assigned.
FreshPenalties(sc) ==
    [called |-> FALSE,
     strain |-> [e \in sc.elements |-> PyNone],
     curvature |-> [e \in sc.elements |-> PyNone],
     strainActive |-> {}, curvatureActive |-> {}, deformActive |-> {},
     before |-> {}]

\* Fitter.assignDeformationPenalties(fitterStepFit) on the state prev; the
\* field before records the deform-active set the call found.
AssignPenalties(prev, sc, config) ==
    LET groups == PenaltyGroups(sc, config)
        found == [e \in sc.elements |->
                     ScanGroups(groups, e, [strain |-> PyNone, curvature |-> PyNone])]
        strainOn == {e \in sc.elements : NonZero(found[e].strain)}
        curvatureOn == {e \in sc.elements : NonZero(found[e].curvature)}
    IN  [called |-> TRUE, config |-> config,
         strain |-> [e \in DOMAIN prev.strain |->
                        IF e \in sc.elements THEN found[e].strain ELSE prev.strain[e]],
         curvature |-> [e \in DOMAIN prev.curvature |->
                           IF e \in sc.elements THEN found[e].curvature
                           ELSE prev.curvature[e]],
         strainActive |-> ActiveCleared(prev.strainActive) \cup strainOn,
         curvatureActive |-> ActiveCleared(prev.curvatureActive) \cup curvatureOn,
         deformActive |-> ActiveCleared(prev.deformActive) \cup strainOn \cup curvatureOn,
         before |-> prev.deformActive]

\* Settings of one group: its strain and its curvature penalty.
GroupPenalties ==
    {[strain |-> Penalty(<<1, 0>>, "true", FALSE), curvature |-> Penalty(<<5, 0>>, "false", FALSE)],
     [strain |-> Penalty(<<0, 0>>, "true", FALSE), curvature |-> Penalty(<<2, 0>>, "true", TRUE)],
     [strain |-> Penalty(<<5, 0>>, "false", FALSE), curvature |-> Penalty(<<5, 0>>, "none", TRUE)],
     [strain |-> Penalty(<<0 - 1, 0>>, "false", TRUE), curvature |-> Penalty(<<0, 3>>, "false", TRUE)]}

\* Settings of the default group.
DefaultPenalties ==
    {[strain |-> Penalty(<<0, 0>>, "false", FALSE), curvature |-> Penalty(<<0, 0>>, "false", FALSE)],
     [strain |-> Penalty(<<0, 0>>, "false", FALSE), curvature |-> Penalty(<<0, 4>>, "true", FALSE)],
     [strain |-> Penalty(<<3, 0>>, "true", FALSE), curvature |-> Penalty(<<0, 0>>, "false", FALSE)]}

PenaltyConfigs ==
    {[groups |-> g, default |-> d] :
        g \in [1..MaxPenaltyGroups -> GroupPenalties], d \in DefaultPenalties}

\* Regions: the groups' elements; a group may be empty and groups may overlap.
PenaltyScenes ==
    {[kind |-> "penalties", elements |-> Elements, groups |-> g] :
        g \in [1..MaxPenaltyGroups -> {{}, {1}, {1, 2}}]}

InitPenalties ==
    /\ InitFitter
    /\ scene \in PenaltyScenes
    /\ autoAlign = NotCalled
    /\ sample = NotCalled
    /\ RestIdle
    /\ penalties = FreshPenalties(scene)
    /\ markerLocations = NotCalled
    /\ projections = NotCalled

\* assignDeformationPenalties(fitterStepFit) for a Fit step with the settings config
AssignDeformationPenalties(config) ==
    /\ scene.kind = "penalties"
    /\ penalties' = AssignPenalties(penalties, scene, config)
    /\ UNCHANGED <<pipelineVars, settingsVars, scene, restVars, autoAlign, sample,
                   markerLocations, projections>>

NextPenalties == \E config \in PenaltyConfigs : AssignDeformationPenalties(config)

SpecPenalties == InitPenalties /\ [][NextPenalties]_vars

\* A penalty that is set on the group or inherited by it from an earlier step;
\* a penalty reset on the group is neither.
SetOrInherited(penalty) ==
    \/ penalty.setLocally = "true"
    \/ penalty.inheritable /\ penalty.setLocally \notin {"true", "none"}

\* The groups, by position, that hold the element and have the penalty.
GroupsGiving(element, kind) ==
    {i \in 1..Len(scene.groups) :
        element \in scene.groups[i] /\ SetOrInherited(penalties.config.groups[i][kind])}

\* The tensor the first group with the penalty gives the element, the tensor
\* of the default group when no group gives one.
FirstGroupPenalty(element, kind) ==
    IF GroupsGiving(element, kind) = {}
    THEN penalties.config.default[kind].value
    ELSE penalties.config.groups[Min(GroupsGiving(element, kind))][kind].value

\* C15: after assignDeformationPenalties every element has the strain tensor
\* of the first group, in the order of the list, that contains it and has a
\* set or inherited strain penalty, an all-zero tensor included, and the
\* default tensor when there is no such group; the curvature tensor is
\* resolved in the same way on its own.
C15_FirstGroupWithPenaltyWins ==
    penalties.called =>
        \A e \in scene.elements :
            /\ penalties.strain[e] = FirstGroupPenalty(e, "strain")
            /\ penalties.curvature[e] = FirstGroupPenalty(e, "curvature")

\* C15 witness: an element of two overlapping groups with different strain
\* tensors has the first group's strain and the second group's curvature.
C15_Witness ==
    /\ penalties.called
    /\ \E e \in scene.groups[1] \cap scene.groups[2] :
        /\ GroupsGiving(e, "strain") = {1, 2}
        /\ GroupsGiving(e, "curvature") = {2}
        /\ penalties.config.groups[1].strain.value # penalties.config.groups[2].strain.value
        /\ penalties.strain[e] = penalties.config.groups[1].strain.value
        /\ penalties.curvature[e] = penalties.config.groups[2].curvature.value

\* C15 witness of the zero tensor: the first group's all-zero strain tensor is
\* kept although a later group of the element has a non-zero one.
C15_ZeroWitness ==
    /\ penalties.called
    /\ \E e \in scene.groups[1] \cap scene.groups[2] :
        /\ GroupsGiving(e, "strain") = {1, 2}
        /\ penalties.config.groups[1].strain.value = <<0, 0>>
        /\ penalties.config.groups[2].strain.value # <<0, 0>>
        /\ penalties.strain[e] = <<0, 0>>

\* The tensors and the active sets of a state.
Assigned(p) ==
    <<p.strain, p.curvature, p.strainActive, p.curvatureActive, p.deformActive>>

\* C16: after any sequence of calls the tensors and the three active sets are
\* those a single call with the last configuration gives on a freshly loaded
\* model, every element has both tensors, and a second call with the same
\* configuration changes nothing.
C16_PenaltiesHistoryIndependent ==
    penalties.called =>
        /\ Assigned(penalties)
            = Assigned(AssignPenalties(FreshPenalties(scene), scene, penalties.config))
        /\ \A e \in scene.elements :
            penalties.strain[e] # PyNone /\ penalties.curvature[e] # PyNone
        /\ Assigned(AssignPenalties(penalties, scene, penalties.config)) = Assigned(penalties)

\* C16 witness: the call found elements active that the last configuration
\* leaves without any penalty.
C16_Witness ==
    /\ penalties.called
    /\ penalties.before \ penalties.deformActive # {}
    /\ penalties.deformActive # {}

\* C17: an element is strain-active iff its strain tensor has a positive
\* component, curvature-active iff its curvature tensor has one, and the
\* deform-active set is the union of the two.
C17_ActiveSetsMatchTensors ==
    penalties.called =>
        /\ \A e \in scene.elements :
            /\ e \in penalties.strainActive
                <=> \E i \in 1..Len(penalties.strain[e]) : penalties.strain[e][i] > 0
            /\ e \in penalties.curvatureActive
                <=> \E i \in 1..Len(penalties.curvature[e]) : penalties.curvature[e][i] > 0
        /\ penalties.deformActive = penalties.strainActive \cup penalties.curvatureActive

\* C17 witness: one element is curvature-active only, with a strain tensor
\* whose only non-zero component is negative, and another is strain-active.
C17_Witness ==
    /\ penalties.called
    /\ \E e \in penalties.curvatureActive \ penalties.strainActive :
        penalties.strain[e] = <<0 - 1, 0>>
    /\ penalties.strainActive # {}
    /\ penalties.deformActive # scene.elements

----------------------------------------------------------------------------
(* Marker data locations (Fitter.setMarkerGroup,                           *)
(* Fitter._calculateMarkerDataLocations)                                   *)

\* Most markers of the model and most of the data.
MaxMarkers == 2

\* No node (None).
NoNode == 0

\* findNodeWithName returning the first node with the name.
FindFirstNodeWithName(names, name) ==
    LET hits == {i \in 1..Len(names) : MatchName(names[i]) = MatchName(name)}
    IN  IF hits = {} THEN NoNode ELSE Min(hits)

\* findNodeWithName(nodeset, nameField, name, ignore_case=True,
\* strip_whitespace=True): the node of that name if there is exactly one.
FindNodeWithName(names, name) ==
    LET hits == {i \in 1..Len(names) : MatchName(names[i]) = MatchName(name)}
    IN  IF Cardinality(hits) = 1 THEN CHOOSE i \in hits : TRUE ELSE NoNode

\* The names of a list of markers.
MarkerNamesOf(markers) == [i \in 1..Len(markers) |-> markers[i].name]

\* The fields setMarkerGroup finds, each on the first marker node and the
\* first marker data point: whether there is one.
MarkerFields(sc) ==
    [markerLocationField |-> Len(sc.modelMarkers) > 0 /\ sc.modelMarkers[1].located,
     markerNameField |-> Len(sc.modelMarkers) > 0,
     markerDataCoordinatesField |-> Len(sc.dataMarkers) > 0 /\ sc.dataMarkers[1].coordinates,
     markerDataNameField |-> Len(sc.dataMarkers) > 0]

\* _calculateMarkerDataLocations(): the marker data points that get a model
\* location; group tells whether the marker data location group was made,
\* raised whether the call ended in an exception.
CalculateMarkerDataLocations(sc) ==
    LET fields == MarkerFields(sc)
        modelNames == MarkerNamesOf(sc.modelMarkers)
        dataNames == MarkerNamesOf(sc.dataMarkers)
        Located(i) ==
            LET name == dataNames[i]
                node == FindNodeWithName(modelNames, name)
            IN  /\ name # ""
                /\ FindNodeWithName(dataNames, name) # NoNode
                /\ sc.dataMarkers[i].coordinates
                /\ node # NoNode
                /\ sc.modelMarkers[node].located
    IN  IF ~(fields.markerDataNameField /\ fields.markerLocationField
                /\ fields.markerNameField)
        THEN [called |-> TRUE, raised |-> FALSE, group |-> FALSE, located |-> {}]
        ELSE IF ~fields.markerDataCoordinatesField
        THEN [called |-> TRUE, raised |-> TRUE, group |-> TRUE, located |-> {}]
        ELSE [called |-> TRUE, raised |-> FALSE, group |-> TRUE,
              located |-> {i \in 1..Len(sc.dataMarkers) : Located(i)}]

MarkerNames == {"A", "a ", " ", ""}

\* Model markers: a name and whether the node has a valid mesh location.
ModelMarkers == [name : MarkerNames, located : BOOLEAN]

\* Data markers: a name and whether the point has coordinates.
DataMarkers == [name : MarkerNames, coordinates : BOOLEAN]

SeqsUpTo(set, n) == UNION {[1..k -> set] : k \in 0..n}

MarkerScenes ==
    {[kind |-> "markers", modelMarkers |-> mm, dataMarkers |-> dm] :
        mm \in SeqsUpTo(ModelMarkers, MaxMarkers), dm \in SeqsUpTo(DataMarkers, MaxMarkers)}

InitMarkers ==
    /\ InitFitter
    /\ scene \in MarkerScenes
    /\ autoAlign = NotCalled
    /\ sample = NotCalled
    /\ RestIdle
    /\ penalties = NotCalled
    /\ markerLocations = NotCalled
    /\ projections = NotCalled

\* setMarkerGroup(markerGroup) with the marker group of the region
SetMarkerGroup ==
    /\ scene.kind = "markers"
    /\ markerLocations' = CalculateMarkerDataLocations(scene)
    /\ UNCHANGED <<pipelineVars, settingsVars, scene, restVars, autoAlign, sample,
                   penalties, projections>>

NextMarkers == SetMarkerGroup

SpecMarkers == InitMarkers /\ [][NextMarkers]_vars

\* The markers of a list, by position, whose name is the given name when case
\* and surrounding whitespace are ignored.
SameName(markers, name) ==
    {i \in 1..Len(markers) : MatchName(markers[i].name) = MatchName(name)}

\* The data marker's name is not empty and one data marker and one model
\* marker have it.
UniqueOnBothSides(i) ==
    /\ scene.dataMarkers[i].name # ""
    /\ Cardinality(SameName(scene.dataMarkers, scene.dataMarkers[i].name)) = 1
    /\ Cardinality(SameName(scene.modelMarkers, scene.dataMarkers[i].name)) = 1

\* C18 as stated: a data marker point gets a model location and enters the
\* marker data location group if and only if its name is not empty and exactly
\* one data marker and exactly one model marker have that name, case and
\* surrounding whitespace ignored.
C18_LocatedIffUniqueOnBothSides ==
    markerLocations.called =>
        \A i \in 1..Len(scene.dataMarkers) :
            i \in markerLocations.located <=> UniqueOnBothSides(i)

\* C18 amended: a data marker point gets a model location if and only if its
\* name is not empty, exactly one data marker and exactly one model marker
\* have that name, the data marker has coordinates, that model marker has a
\* valid mesh location, and the first data marker has coordinates and the
\* first model marker a mesh location (where the fitter finds the fields).
C18_LocatedIffUniqueAndLocatable ==
    markerLocations.called =>
        \A i \in 1..Len(scene.dataMarkers) :
            i \in markerLocations.located <=>
                /\ UniqueOnBothSides(i)
                /\ scene.dataMarkers[i].coordinates
                /\ \A n \in SameName(scene.modelMarkers, scene.dataMarkers[i].name) :
                    scene.modelMarkers[n].located
                /\ scene.dataMarkers[1].coordinates
                /\ scene.modelMarkers[1].located

\* C18 witness: data marker "a " is located by model marker "A", while the
\* other model marker has no data counterpart.
C18_Witness ==
    /\ markerLocations.called
    /\ Len(scene.modelMarkers) = 2
    /\ scene.modelMarkers[1].name = "A"
    /\ SameName(scene.dataMarkers, scene.modelMarkers[2].name) = {}
    /\ \E i \in markerLocations.located : scene.dataMarkers[i].name = "a "

\* C18 witness of duplicates: two data markers share a name that one model
\* marker has, and neither is located.
C18_DuplicateWitness ==
    /\ markerLocations.called
    /\ markerLocations.group
    /\ Len(scene.dataMarkers) = 2
    /\ scene.dataMarkers[1].name = "A"
    /\ scene.dataMarkers[2].name = "a "
    /\ Cardinality(SameName(scene.modelMarkers, "A")) = 1
    /\ markerLocations.located = {}

----------------------------------------------------------------------------
(* Data projections (Fitter.calculateDataProjections,                      *)
(* Fitter.calculateGroupDataProjections)                                   *)

\* Most data points of the region.
MaxData == 3
\* Most groups of the region that hold data points.
MaxDataGroups == 2

\* The data projection state load() leaves: no group seen, no data point with
\* the host location field, empty projection groups, no active data.
FreshProjections ==
    [called |-> FALSE, names |-> <<>>, merged |-> {}, dim |-> <<{}, {}>>,
     active |-> {}, attempted |-> {}, skipped |-> {}, raised |-> FALSE]

\* The points of a data group that the sampling loop takes, the group being
\* iterated in the order of the identifiers.
Taken(data, num) ==
    {p \in data : Cardinality({q \in data : q <= p}) \in Accepted(Cardinality(data), num)}

\* The data points on which the host location field is defined: those of the
\* groups prepared by calculateDataProjections and the located marker points.
HostLocationDefined(st, sc) == st.merged \cup sc.markerLocated

\* addNodesConditional leaving the active data group as it is.
ActiveNotAdded(active, group) == active

\* self._activeDataNodesetGroup.addNodesConditional(field of the group)
AddNodesConditional(active, group) == active \cup group

\* calculateGroupDataProjections for group g.  With central projection the call
\* returns when the mean of the data coordinates cannot be evaluated.  A taken
\* point with coordinates gets a location; assigning it to a point on which
\* the host location field is not defined fails the assertion.
CalculateGroupDataProjections(st, sc, g, cfg) ==
    LET data == sc.groups[g].data
        d == sc.groups[g].dimension
        found == Taken(data, cfg.proportion) \cap sc.coordinates
        failing == found \ HostLocationDefined(st, sc)
        added == IF failing = {} THEN found ELSE {p \in found : p < Min(failing)}
        dim == [st.dim EXCEPT ![d] = @ \cup added]
        tried == [st EXCEPT !.attempted = @ \cup {g}]
    IN  IF cfg.central /\ data \cap sc.coordinates = {} THEN tried
        ELSE IF failing # {} THEN [tried EXCEPT !.dim = dim, !.raised = TRUE]
        ELSE [tried EXCEPT !.dim = dim, !.active = AddNodesConditional(st.active, dim[d])]

\* The group has already been prepared or warned about: never.
NotSeen(names, g) == TRUE

\* groupName not in self._dataProjectionGroupNames
NotInNames(names, g) == g \notin Range(names)

\* The body of the loop over the groups for group g.
ProjectGroup(st, sc, g, cfg) ==
    LET data == sc.groups[g].data
        seen == [st EXCEPT !.names = Append(@, g)]
    IN  IF st.raised \/ data = {} \/ sc.groups[g].dimension = 0 THEN st
        ELSE IF NotInNames(st.names, g)
        THEN IF Min(data) \notin sc.coordinates
             THEN [seen EXCEPT !.skipped = @ \cup {g}]
             ELSE CalculateGroupDataProjections(
                      [seen EXCEPT !.merged = @ \cup data], sc, g, cfg)
        ELSE CalculateGroupDataProjections(st, sc, g, cfg)

RECURSIVE ProjectGroups(_, _, _, _)
\* The loop over the groups following group g.
ProjectGroups(st, sc, g, cfg) ==
    IF g > Len(sc.groups) THEN st
    ELSE ProjectGroups(ProjectGroup(st, sc, g, cfg), sc, g + 1, cfg)

\* calculateDataProjections(fitterStep) on the state prev, the active Config
\* step giving every group the proportion and central projection of cfg.
CalculateProjections(prev, sc, cfg) ==
    ProjectGroups([called |-> TRUE, names |-> prev.names, merged |-> prev.merged,
                   dim |-> <<{}, {}>>, active |-> sc.markerLocated,
                   attempted |-> {}, skipped |-> prev.skipped, raised |-> FALSE],
                  sc, 1, cfg)

DataPoints == 1..MaxData

\* A group: its data points and the dimension of its mesh group, 0 without one.
DataGroups ==
    [data : {{}, {1}, {1, 2}, {2, 3}, DataPoints}, dimension : {0, 1, 2}]

\* Regions: the groups, the data points with data coordinates, and the marker
\* data points with a model location.
ProjectionScenes ==
    {[kind |-> "projections", groups |-> g, coordinates |-> c, markerLocated |-> m] :
        g \in [1..MaxDataGroups -> DataGroups],
        c \in {DataPoints, {2, 3}, {1}, {}},
        m \in {{}, {MaxData}}}

\* Settings of the active Config step: the data proportion in units of
\* 1 / SampleDen and central projection.
ProjectionConfigs == [proportion : {SampleDen \div 2, SampleDen}, central : BOOLEAN]

InitProjections ==
    /\ InitFitter
    /\ scene \in ProjectionScenes
    /\ autoAlign = NotCalled
    /\ sample = NotCalled
    /\ RestIdle
    /\ penalties = NotCalled
    /\ markerLocations = NotCalled
    /\ projections = FreshProjections

\* calculateDataProjections(fitterStep) with cfg as the active settings
DataProjections(cfg) ==
    /\ scene.kind = "projections"
    /\ projections' = CalculateProjections(projections, scene, cfg)
    /\ UNCHANGED <<pipelineVars, settingsVars, scene, restVars, autoAlign, sample,
                   penalties, markerLocations>>

\* load(): the region is read again and _defineDataProjectionFields() forgets
\* the groups seen.
LoadProjections ==
    /\ scene.kind = "projections"
    /\ projections.called
    /\ projections' = FreshProjections
    /\ UNCHANGED <<pipelineVars, settingsVars, scene, restVars, autoAlign, sample,
                   penalties, markerLocations>>

NextProjections ==
    \/ \E cfg \in ProjectionConfigs : DataProjections(cfg)
    \/ LoadProjections

SpecProjections == InitProjections /\ [][NextProjections]_vars

\* The points in the projection group of dimension d were taken in this call:
\* each has coordinates and lies in a group of that dimension tried in it.
ProjectedInThisCall(d) ==
    \A p \in projections.dim[d] :
        /\ p \in scene.coordinates
        /\ \E g \in projections.attempted :
            p \in scene.groups[g].data /\ scene.groups[g].dimension = d

\* The active data are the located marker points and the projected points.
ActiveIsMarkersAndProjected ==
    projections.active
        = scene.markerLocated \cup projections.dim[1] \cup projections.dim[2]

\* C19: after every calculateDataProjections call the two projection groups
\* hold only points accepted in this call, the active data are the located
\* marker points and the points of the two groups, and no data point is in
\* both projection groups.
C19_OneProjectionPerPoint ==
    projections.called =>
        /\ ProjectedInThisCall(1) /\ ProjectedInThisCall(2)
        /\ ActiveIsMarkersAndProjected
        /\ projections.dim[1] \cap projections.dim[2] = {}

\* After a call that returned, the projection groups hold only points of this
\* call and the active data are the marker points and the projected points.
C19_ProjectionsRebuilt ==
    (projections.called /\ ~projections.raised) =>
        /\ ProjectedInThisCall(1) /\ ProjectedInThisCall(2)
        /\ ActiveIsMarkersAndProjected

\* A call returned in a region where a data point with coordinates lies in a
\* group with a mesh group of dimension 2 and in one of dimension 1.
C19_OverlapReached ==
    /\ projections.called /\ ~projections.raised
    /\ projections.dim[1] \cap projections.dim[2] # {}

\* C20: a group whose data lacked the data coordinates when first met is
\* skipped in every later call until the next load: no projection is attempted
\* for it.
C20_SkippedGroupStaysSkipped ==
    projections.skipped \cap projections.attempted = {}

\* In the call that first meets it, a group without data coordinates is
\* skipped.
C20_SkippedWhenFirstMet ==
    [][\A g \in projections'.skipped \ projections.skipped :
            g \notin projections'.attempted]_vars

\* A later call has tried and failed on a group it skipped before.
C20_LaterCallRaises ==
    projections.raised /\ projections.skipped \cap projections.attempted # {}

----------------------------------------------------------------------------
(* Writing the model (Fitter.writeModel)                                   *)

\* "fitted " + self._modelCoordinatesFieldName
FittedName(name) == "fitted " \o name

\* Field.setName(name): the name the field has afterwards; the name is not
\* changed when another field of the region has it.
SetName(others, current, name) == IF name \in others THEN current ELSE name

\* The restoring setName placed after the assertion on the result.
RestoreNameAfterAssert(others, current, name, ok) ==
    IF ok THEN SetName(others, current, name) ELSE current

\* self._modelCoordinatesField.setName(self._modelCoordinatesFieldName), made
\* before the result of the write is asserted.
RestoreName(others, current, name, ok) == SetName(others, current, name)

\* writeModel(modelFileName) when region.write returns RESULT_OK (ok) or not.
\* output is the field name given to the stream resource; without a model
\* coordinates field the call raises before anything is renamed.
WriteModelResult(prev, sc, ok) ==
    IF ~sc.hasField
    THEN [called |-> TRUE, fieldName |-> prev.fieldName, output |-> PyNone,
          renamed |-> PyNone, raised |-> TRUE]
    ELSE LET outputName == FittedName(sc.modelCoordinatesFieldName)
             renamed == SetName(sc.otherFields, prev.fieldName, outputName)
         IN  [called |-> TRUE,
              fieldName |-> RestoreName(sc.otherFields, renamed,
                                        sc.modelCoordinatesFieldName, ok),
              output |-> outputName, renamed |-> renamed, raised |-> ~ok]

FieldNames == {"coordinates", "x", "fitted x", "y"}
OtherFieldNames == {"fitted coordinates", "fitted x", "y"}

\* Regions: the name of the model coordinates field, whether the field was
\* found, and the names of the other fields.
WriteScenes ==
    UNION {{[kind |-> "write", modelCoordinatesFieldName |-> n, hasField |-> h,
             otherFields |-> o] :
                h \in BOOLEAN, o \in SUBSET (OtherFieldNames \ {n})} : n \in FieldNames}

InitWrite ==
    /\ InitFitter
    /\ scene \in WriteScenes
    /\ autoAlign = NotCalled
    /\ sample = NotCalled
    /\ penalties = NotCalled
    /\ markerLocations = NotCalled
    /\ projections = NotCalled
    /\ written = [called |-> FALSE, fieldName |-> scene.modelCoordinatesFieldName]
    /\ search = NotCalled
    /\ offsets = NotCalled

\* writeModel(modelFileName)
WriteModel(ok) ==
    /\ scene.kind = "write"
    /\ written' = WriteModelResult(written, scene, ok)
    /\ UNCHANGED <<pipelineVars, settingsVars, scene, autoAlign, sample, penalties,
                   markerLocations, projections, search, offsets>>

NextWrite == \E ok \in BOOLEAN : WriteModel(ok)

SpecWrite == InitWrite /\ [][NextWrite]_vars

----------------------------------------------------------------------------
(* Runs of a fixed pipeline, with and without failing steps                *)

\* The pipelines: lists of different steps that begin with a Config step.
Pipelines ==
    {s \in UNION {[1..n -> StepIds] : n \in 1..MaxSteps} :
        /\ StepClass(s[1]) = "Config"
        /\ \A i, j \in 1..Len(s) : s[i] = s[j] => i = j}

\* A fitter whose pipeline has been built and is not changed any more.
InitRuns ==
    /\ fitterSteps \in Pipelines
    /\ stepFitter = [id \in StepIds |-> id \in Range(fitterSteps)]
    /\ stepHasRun = [id \in StepIds |-> FALSE]
    /\ loaded = FALSE
    /\ geometry = <<>>
    /\ call = Call("init", 1, NoStep, NoStep, FALSE, FALSE, <<>>)
    /\ settings = DefaultSettings
    /\ stepAlign = [id \in StepIds |-> DefaultAlign]
    /\ scene = NoScene
    /\ autoAlign = NotCalled
    /\ sample = NotCalled
    /\ RestIdle
    /\ penalties = NotCalled
    /\ markerLocations = NotCalled
    /\ projections = NotCalled

\* load() and run(endStep) where every step's run goes through.
NextRuns ==
    \/ Load
    \/ \E endStep \in StepIds \cup {NoStep} : Run(endStep, NoStep)

SpecRuns == InitRuns /\ [][NextRuns]_vars

\* load() and run(endStep, modelFileNameStem) where the intermediate model
\* write of an Align step may fail.
NextRunFailures ==
    \/ Load
    \/ \E endStep \in StepIds \cup {NoStep}, failStep \in StepIds \cup {NoStep} :
           Run(endStep, failStep)

SpecRunFailures == InitRuns /\ [][NextRunFailures]_vars

\* How often the effect of step id is in the geometry.
TimesApplied(id) == Cardinality({i \in 1..Len(geometry) : geometry[i] = id})

\* C22: under any sequence of run calls, calls in which a step's run fails
\* part-way included, no step has its effect on the model geometry more than
\* once since the latest load.
C22_NoStepAppliedTwice ==
    \A id \in StepIds : TimesApplied(id) <= 1

\* A run has failed after the Align step transformed the model, and the step
\* has not run.
C22_FailedAfterTransform ==
    /\ call.op = "run" /\ call.raised
    /\ TimesApplied(2) = 1
    /\ ~stepHasRun[2]

----------------------------------------------------------------------------
(* The pipeline under insertions, removals and runs                        *)

\* The steps that have run are the first steps of the pipeline.
HasRunIsPrefix ==
    \A i, j \in 1..Len(fitterSteps) :
        (i < j /\ stepHasRun[fitterSteps[j]]) => stepHasRun[fitterSteps[i]]

\* The steps of the pipeline after the first up to position n that change the
\* model geometry, in pipeline order.
EffectsUpTo(n) ==
    LET Changes(id) == StepClass(id) # "Config"
    IN  SelectSeq(SubSeq(fitterSteps, 2, n), Changes)

\* C27: in every state after load, however addFitterStep, removeFitterStep and
\* run interleave, the steps that have run are a prefix of the pipeline, and
\* when run(target) returns the geometry carries exactly the effects of the
\* pipeline's steps up to the target, each once and in pipeline order.
C27_RunPrefixAndExactEffects ==
    loaded =>
        /\ HasRunIsPrefix
        /\ (call.op = "run" /\ ~call.raised) =>
               geometry = EffectsUpTo(IndexOf(fitterSteps, call.step))

\* A step that has not run stands before a step that has run.
C27_GapReached ==
    /\ loaded
    /\ ~HasRunIsPrefix
    /\ call.op = "add" /\ ~call.raised

\* A run returned with the effect of a step that is no longer in the pipeline.
C27_RemovedEffectRemains ==
    /\ call.op = "run" /\ ~call.raised
    /\ \E i \in 1..Len(geometry) : geometry[i] \notin Range(fitterSteps)

----------------------------------------------------------------------------
(* Properties of FitterStepAlign.run and _doAutoAlign                      *)

\* The names of the stages of a trace.
StageNames(trace) == [i \in 1..Len(trace) |-> trace[i].stage]

\* C23: a run of an Align step that goes through performs the solve first
\* (only with alignGroups or alignMarkers on), replacing the stored rotation,
\* scale and translation, then transforms the model by the stored values, then
\* refreshes the reference geometry, then recomputes the projections, and sets
\* hasRun last; with both toggles off the stored values are applied unchanged.
C23_AlignStagesInOrder ==
    [][(call'.op = "runAlign" /\ ~call'.raised) =>
        LET step == call'.step
            auto == stepAlign[step].alignGroups \/ stepAlign[step].alignMarkers
            stored == stepAlign'[step]
        IN  /\ StageNames(call'.trace)
                = (IF auto THEN <<"solve">> ELSE <<>>)
                    \o <<"transform", "reference", "projections", "hasRun">>
            /\ \A i \in 1..Len(call'.trace) :
                /\ call'.trace[i].rotation = stored.rotation
                /\ call'.trace[i].scale = stored.scale
                /\ call'.trace[i].translation = stored.translation
            /\ auto => (autoAlign'.called /\ ~autoAlign'.raised
                        /\ stored = Solved(stepAlign[step]))
            /\ ~auto => stepAlign' = stepAlign
            /\ geometry' = Append(geometry, step)
            /\ stepHasRun'[step]]_vars

\* C23 witness: with both toggles off an Align step with its own stored
\* transformation has run in a region without any correspondence.
C23_Witness ==
    /\ call.op = "runAlign" /\ ~call.raised
    /\ Len(call.trace) = 4
    /\ call.trace[1].stage = "transform"
    /\ call.trace[1].rotation # <<0, 0, 0>>
    /\ ~stepAlign[call.step].alignGroups /\ ~stepAlign[call.step].alignMarkers
    /\ GroupPairs(scene) = {}
    /\ stepHasRun[call.step]

\* A run with the solve: five stages, the transformation being the solved one.
C23_SolveWitness ==
    /\ call.op = "runAlign" /\ ~call.raised
    /\ Len(call.trace) = 5
    /\ call.trace[2].stage = "transform"
    /\ call.trace[2].scale = Solved(DefaultAlign).scale

\* C26: when the alignment solve of an Align step fails, the stored rotation,
\* scale and translation, the model geometry and hasRun are as before, and no
\* later stage of the run is performed.
C26_FailedSolveChangesNothing ==
    [][(call'.op = "runAlign" /\ call'.raised) =>
        /\ stepAlign' = stepAlign
        /\ geometry' = geometry
        /\ stepHasRun' = stepHasRun
        /\ call'.trace = <<>>]_vars

\* C26 witness: the optimisation failed for an Align step with its own stored
\* transformation, which it still has; the step has not run.
C26_Witness ==
    /\ call.op = "runAlign" /\ call.raised
    /\ autoAlign.called /\ autoAlign.cause = "solver"
    /\ stepAlign[call.step].rotation = <<1, 2, 3>>
    /\ ~stepHasRun[call.step]
    /\ geometry = <<>>

\* No data marker is in two pairs.
OnePairPerDataMarker(pairs) ==
    \A p, q \in pairs : p[2] = q[2] => p = q

\* C28: the marker pairs _doAutoAlign builds are the same with diagnostics
\* written and without, and each data marker is paired with at most one model
\* marker.
C28_PairsIndependentOfDiagnostics ==
    (autoAlign.called /\ autoAlign.alignMarkers /\ scene.markerGroup) =>
        LET quiet == MatchPairs(scene.modelMarkers, scene.dataMarkers, FALSE)
            loud == MatchPairs(scene.modelMarkers, scene.dataMarkers, TRUE)
        IN  /\ quiet = loud
            /\ OnePairPerDataMarker(quiet)
            /\ OnePairPerDataMarker(loud)

\* At diagnostic level 0 an alignment to markers went through on three pairs
\* of which diagnostic level 1 builds two.
C28_LevelDecidesOutcome ==
    /\ autoAlign.called /\ autoAlign.alignMarkers /\ ~autoAlign.alignGroups
    /\ ~autoAlign.raised
    /\ settings.diagnosticLevel = 0
    /\ Cardinality(MatchPairs(scene.modelMarkers, scene.dataMarkers, TRUE)) = 2

\* C29: with alignGroups and alignMarkers on, the number of pairs handed to
\* _optimiseAlignment is the number of matched groups plus the number of
\* matched model markers.
C29_EveryMatchIsAPair ==
    (autoAlign.called /\ autoAlign.alignGroups /\ autoAlign.alignMarkers
            /\ autoAlign.cause # "markerGroup") =>
        Cardinality(autoAlign.pointMap)
            = Cardinality(autoAlign.groupPairs) + Cardinality(autoAlign.markerPairs)

\* Two matched groups and a matched marker named as one of them: the alignment
\* raised for want of a third pair.
C29_ThreeMatchesTwoPairs ==
    /\ autoAlign.called /\ autoAlign.raised /\ autoAlign.cause = "points"
    /\ Cardinality(autoAlign.groupPairs) + Cardinality(autoAlign.markerPairs) >= 3

-----------------------------------------------------------------------------
\* Discrete rotation search (FitterStepAlign._optimiseAlignment)
\*
\* Coordinates are integers and Euler angles are counted in quarter turns, so
\* that the rotation matrices of the grid are integer matrices.  With n pairs
\* and a model span M, the centroids are multiples of 1/n and the seed scale
\* is dataSpan/M; every length below is carried multiplied by n*M ("unit")
\* and the objective by (n*M)^2, which leaves their comparisons as they are.

\* Number of correspondence points the search draws its coordinates from.
MaxCorners == 4

\* len(pointMap) >= 3
MinPairs == 3

CornerList ==
    << <<0, 0, 0>>, <<1, 0, 0>>, <<0, 2, 0>>, <<1, 1, 1>>, <<0, 0, 1>>, <<2, 1, 0>> >>

Corners == {CornerList[i] : i \in 1..MaxCorners}

sub(a, b) == [c \in 1..3 |-> a[c] - b[c]]

add(a, b) == [c \in 1..3 |-> a[c] + b[c]]

mult(v, s) == [c \in 1..3 |-> v[c] * s]

dot(a, b) == a[1] * b[1] + a[2] * b[2] + a[3] * b[3]

matrix_vector_mult(m, v) == [r \in 1..3 |-> dot(m[r], v)]

\* cos and sin of a number of quarter turns
CosQuarter(k) == CASE k % 4 = 0 -> 1 [] k % 4 = 2 -> -1 [] OTHER -> 0

SinQuarter(k) == CASE k % 4 = 1 -> 1 [] k % 4 = 3 -> -1 [] OTHER -> 0

\* euler_to_rotation_matrix([azimuth, elevation, roll]) of opencmiss.maths,
\* which create_field_euler_angles_rotation_matrix builds as a field.
euler_to_rotation_matrix(angles) ==
    LET ca == CosQuarter(angles[1])
        sa == SinQuarter(angles[1])
        ce == CosQuarter(angles[2])
        se == SinQuarter(angles[2])
        cr == CosQuarter(angles[3])
        sr == SinQuarter(angles[3])
    IN  << <<ca * ce, ca * se * sr - sa * cr, ca * se * cr + sa * sr>>,
           <<sa * ce, sa * se * sr + ca * cr, sa * se * cr - ca * sr>>,
           <<0 - se, ce * sr, ce * cr>> >>

RECURSIVE SumPoints(_, _)
SumPoints(points, i) ==
    IF i = 0 THEN <<0, 0, 0>> ELSE add(SumPoints(points, i - 1), points[i])

MaxOf(S) == CHOOSE m \in S : \A o \in S : o <= m

MinOf(S) == CHOOSE m \in S : \A o \in S : m <= o

\* max over the components of (max - min) of the points
MaxSpan(points) ==
    MaxOf({MaxOf({points[i][c] : i \in 1..Len(points)})
           - MinOf({points[i][c] : i \in 1..Len(points)}) : c \in 1..3})

ModelPositions(pointMap) == [i \in 1..Len(pointMap) |-> pointMap[i][1]]

DataPositions(pointMap) == [i \in 1..Len(pointMap) |-> pointMap[i][2]]

\* The seed of the search: centroids, translation offset and scale factor.
Seed(pointMap) ==
    LET n == Len(pointMap)
        modelx == ModelPositions(pointMap)
        datax == DataPositions(pointMap)
        modelsum == SumPoints(modelx, n)
        datasum == SumPoints(datax, n)
        modelSpan == MaxSpan(modelx)
        dataSpan == MaxSpan(datax)
    IN  [n |-> n, modelsum |-> modelsum, datasum |-> datasum,
         modelSpan |-> modelSpan, dataSpan |-> dataSpan,
         unit |-> n * modelSpan,
         \* (dataCM - modelCM) * unit
         translationOffset |-> mult(sub(datasum, modelsum), modelSpan)]

\* (translationOffset - translationFix) * unit, with
\* translationFix = (rotationMatrix * modelCM - modelCM) * scaleFactor
CandidateTranslation(seed, angles) ==
    LET rotationMatrix == euler_to_rotation_matrix(angles)
        translationFix ==
            mult(sub(matrix_vector_mult(rotationMatrix, seed.modelsum), seed.modelsum),
                 seed.dataSpan)
    IN  sub(seed.translationOffset, translationFix)

\* createFieldsTransformations: rotate, scale and translate, in that order;
\* the value is the transformed position * unit, and position is a sum of
\* `over` model positions (1 for a point, n for n times the centroid).
Transformed(seed, angles, translation, position, over) ==
    add(mult(matrix_vector_mult(euler_to_rotation_matrix(angles), position),
             (seed.n \div over) * seed.dataSpan),
        translation)

\* Sum over the pairs of the squared distance from the transformed model
\* position to the data position, * unit^2.
Objective(seed, pointMap, angles, translation) ==
    LET diff(i) == sub(mult(pointMap[i][2], seed.unit),
                       Transformed(seed, angles, translation, pointMap[i][1], 1))
        squares == [i \in 1..Len(pointMap) |-> <<dot(diff(i), diff(i)), 0, 0>>]
    IN  SumPoints(squares, Len(pointMap))[1]

Azimuths == <<0, 1, 2, 3>>

\* for y in (range(4) if x == 0 else (0, 2))
Elevations(x) == IF x = 0 THEN <<0, 1, 2, 3>> ELSE <<0, 2>>

Rolls == <<0, 1>>

\* The triples of one roll in the order of the loops: z fastest.
CandidatesOfRoll(x) ==
    [i \in 1..(Len(Elevations(x)) * Len(Azimuths)) |->
        <<Azimuths[((i - 1) % Len(Azimuths)) + 1],
          Elevations(x)[((i - 1) \div Len(Azimuths)) + 1],
          x>>]

Candidates == CandidatesOfRoll(Rolls[1]) \o CandidatesOfRoll(Rolls[2])

\* Ties go to the candidate evaluated last.
BetterOrEqual(objectiveValue, minObjectiveValue) == objectiveValue <= minObjectiveValue

\* objectiveValue < minObjectiveValue
Better(objectiveValue, minObjectiveValue) == objectiveValue < minObjectiveValue

NoMinimum ==
    [first |-> TRUE, minObjectiveValue |-> 0, minRotationAngles |-> <<0, 0, 0>>,
     minTranslation |-> <<0, 0, 0>>, evaluated |-> <<>>]

\* The loops over the grid, up to and including candidate i.
RECURSIVE SearchUpTo(_, _, _)
SearchUpTo(seed, pointMap, i) ==
    IF i = 0 THEN NoMinimum
    ELSE LET before == SearchUpTo(seed, pointMap, i - 1)
             rotationAngles == Candidates[i]
             translation == CandidateTranslation(seed, rotationAngles)
             objectiveValue == Objective(seed, pointMap, rotationAngles, translation)
             evaluated == Append(before.evaluated,
                                 [rotationAngles |-> rotationAngles,
                                  translation |-> translation,
                                  objectiveValue |-> objectiveValue])
         IN  IF before.first \/ Better(objectiveValue, before.minObjectiveValue)
             THEN [first |-> FALSE, minObjectiveValue |-> objectiveValue,
                   minRotationAngles |-> rotationAngles,
                   minTranslation |-> translation, evaluated |-> evaluated]
             ELSE [before EXCEPT !.evaluated = evaluated]

\* _optimiseAlignment up to the start of the continuous refinement: what it
\* evaluated and the rotation and translation it hands over.
OptimiseAlignmentResult(pointMap) ==
    LET seed == Seed(pointMap)
        idle == [called |-> TRUE, raised |-> TRUE, cause |-> "points",
                 pointMap |-> pointMap, unit |-> 0, evaluated |-> <<>>,
                 rotation |-> <<0, 0, 0>>, translation |-> <<0, 0, 0>>]
    IN  IF Len(pointMap) < MinPairs THEN idle
        ELSE IF seed.modelSpan = 0 THEN [idle EXCEPT !.cause = "span"]
        ELSE LET found == SearchUpTo(seed, pointMap, Len(Candidates))
             IN  [idle EXCEPT !.raised = FALSE, !.cause = "",
                              !.unit = seed.unit,
                              !.evaluated = found.evaluated,
                              !.rotation = found.minRotationAngles,
                              !.translation = found.minTranslation]

\* Lists of model positions in the order of CornerList.
RECURSIVE ModelLists(_)
ModelLists(n) ==
    IF n = 0 THEN {<<>>}
    ELSE {Append(l, i) : l \in ModelLists(n - 1), i \in 1..MaxCorners}

Ordered(l) == \A i \in 1..(Len(l) - 1) : l[i] <= l[i + 1]

\* Point maps of MinPairs - 1 and MinPairs pairs.
PointMaps ==
    UNION {{[i \in 1..n |-> <<CornerList[m[i]], d[i]>>] :
              m \in {l \in ModelLists(n) : Ordered(l)}, d \in [1..n -> Corners]}
           : n \in {MinPairs - 1, MinPairs}}

InitSearch ==
    /\ InitFitter
    /\ scene = NoScene
    /\ autoAlign = NotCalled
    /\ sample = NotCalled
    /\ penalties = NotCalled
    /\ markerLocations = NotCalled
    /\ projections = NotCalled
    /\ written = NotCalled
    /\ search \in {[called |-> FALSE, pointMap |-> pm] : pm \in PointMaps}
    /\ offsets = NotCalled

\* _optimiseAlignment(pointMap)
OptimiseAlignment ==
    /\ ~search.called
    /\ "pointMap" \in DOMAIN search
    /\ search' = OptimiseAlignmentResult(search.pointMap)
    /\ UNCHANGED <<pipelineVars, settingsVars, scene, autoAlign, sample, penalties,
                   markerLocations, projections, written, offsets>>

NextSearch == OptimiseAlignment

SpecSearch == InitSearch /\ [][NextSearch]_vars

\* The grid as documented: azimuth and roll in quarter turns, elevation in
\* quarter turns at roll 0 and in half turns at roll 90 degrees.
DocumentedGrid ==
    {<<azimuth, elevation, roll>> :
        azimuth \in 0..3, elevation \in 0..3, roll \in 0..1} \
    {<<azimuth, elevation, 1>> : azimuth \in 0..3, elevation \in {1, 3}}

Searched == search.called /\ "raised" \in DOMAIN search /\ ~search.raised

\* Position in the evaluation order of the candidate handed over.
HandedOver ==
    CHOOSE i \in 1..Len(search.evaluated) :
        /\ search.evaluated[i].rotationAngles = search.rotation
        /\ \A j \in 1..(i - 1) : search.evaluated[j].rotationAngles # search.rotation

\* C24: the search evaluates every triple of the grid exactly once, at most
\* 32 of them; the triple handed to the refinement has an objective no greater
\* than any other candidate's and smaller than that of every candidate
\* evaluated before it; the translation handed over is that triple's.
C24_SearchExhaustiveFirstMinimum ==
    Searched =>
        LET evaluated == search.evaluated
            seed == Seed(search.pointMap)
        IN  /\ {evaluated[i].rotationAngles : i \in 1..Len(evaluated)} = DocumentedGrid
            /\ Len(evaluated) = Cardinality(DocumentedGrid)
            /\ Len(evaluated) <= 32
            /\ \A i \in 1..Len(evaluated) :
                  /\ evaluated[i].translation
                        = CandidateTranslation(seed, evaluated[i].rotationAngles)
                  /\ evaluated[i].objectiveValue
                        = Objective(seed, search.pointMap, evaluated[i].rotationAngles,
                                    evaluated[i].translation)
            /\ search.rotation \in DocumentedGrid
            /\ \A i \in 1..Len(evaluated) :
                  /\ evaluated[HandedOver].objectiveValue <= evaluated[i].objectiveValue
                  /\ i < HandedOver =>
                        evaluated[HandedOver].objectiveValue < evaluated[i].objectiveValue
            /\ search.translation = evaluated[HandedOver].translation

\* C24 witness: a search whose minimum is reached by a candidate that is not
\* the first and is reached again by a later candidate.
C24_Witness ==
    /\ Searched
    /\ HandedOver > 1
    /\ \E j \in (HandedOver + 1)..Len(search.evaluated) :
          search.evaluated[j].objectiveValue
              = search.evaluated[HandedOver].objectiveValue

\* C25: every candidate transform (rotate, scale by the seed scale, translate
\* by the candidate's translation) maps the centroid of the model positions
\* onto the centroid of the data positions.
C25_CentroidMappedOntoData ==
    Searched =>
        LET seed == Seed(search.pointMap)
        IN  \A i \in 1..Len(search.evaluated) :
               Transformed(seed, search.evaluated[i].rotationAngles,
                           search.evaluated[i].translation, seed.modelsum, seed.n)
                   = mult(seed.datasum, seed.modelSpan)

\* C25, at a seed scale of 1 (equal spans) the centroid is mapped onto the
\* data centroid by every candidate.
C25_CentroidMappedAtUnitScale ==
    (Searched /\ Seed(search.pointMap).dataSpan = Seed(search.pointMap).modelSpan) =>
        C25_CentroidMappedOntoData

\* C25, a search at a seed scale of 1 with a rotation that moves the centroid.
C25_UnitScaleReached ==
    /\ Searched
    /\ Seed(search.pointMap).dataSpan = Seed(search.pointMap).modelSpan
    /\ \E i \in 1..Len(search.evaluated) :
          search.evaluated[i].translation # Seed(search.pointMap).translationOffset

-----------------------------------------------------------------------------
\* Identifier offsetting in Fitter._loadData

\* Number of sample identifiers the nodes and datapoints are drawn from.
MaxIdentifiers == 6

\* identifierOffset = 100000
FirstOffset == 100000

\* assert identifierOffset < 1000000000
OffsetLimit == 1000000000

\* identifierOffset *= 10
OffsetFactor == 10

IdentifierList ==
    <<1, FirstOffset, FirstOffset - 1, FirstOffset + 1, OffsetLimit + 1,
      FirstOffset * OffsetFactor, OffsetLimit, 2>>

Identifiers == {IdentifierList[i] : i \in 1..MaxIdentifiers}

\* getMaximumNodeIdentifier(nodeset): -1 for an empty nodeset
getMaximumNodeIdentifier(nodeset) ==
    IF nodeset = {} THEN -1 ELSE CHOOSE m \in nodeset : \A o \in nodeset : o <= m

\* max(0, identifier)
AtLeastZero(identifier) == IF identifier > 0 THEN identifier ELSE 0

\* The first while loop: the offset reached from identifierOffset, or the
\* failure of the assertion.
RECURSIVE GrowOffset(_, _, _)
GrowOffset(maximumDatapointIdentifier, maximumNodeIdentifier, identifierOffset) ==
    IF (maximumDatapointIdentifier > identifierOffset)
           \/ (maximumNodeIdentifier > identifierOffset)
    THEN IF identifierOffset < OffsetLimit
         THEN GrowOffset(maximumDatapointIdentifier, maximumNodeIdentifier,
                         identifierOffset * OffsetFactor)
         ELSE [raised |-> TRUE, identifierOffset |-> identifierOffset]
    ELSE [raised |-> FALSE, identifierOffset |-> identifierOffset]

\* if identifier >= identifierOffset: break
AtOrBeyondOffset(identifier, identifierOffset) == identifier >= identifierOffset

\* The second while loop: the datapoint of lowest identifier is renumbered
\* until it is at or beyond the offset; setIdentifier fails on an identifier
\* in use.  `left` bounds the iterations followed: the loop has not ended by
\* itself if it runs out.
RECURSIVE Renumber(_, _, _, _)
Renumber(datapoints, identifierOffset, iterations, left) ==
    LET identifier == CHOOSE m \in datapoints : \A o \in datapoints : m <= o
        stopped == [raised |-> FALSE, ended |-> TRUE, datapoints |-> datapoints,
                    iterations |-> iterations]
    IN  IF AtOrBeyondOffset(identifier, identifierOffset) THEN stopped
        ELSE IF left = 0 THEN [stopped EXCEPT !.ended = FALSE]
        ELSE IF identifier + identifierOffset \in datapoints
             THEN [stopped EXCEPT !.raised = TRUE]
        ELSE Renumber((datapoints \ {identifier}) \cup {identifier + identifierOffset},
                      identifierOffset, iterations + 1, left - 1)

\* _loadData on raw data with the given node and datapoint identifiers: the
\* offset, the datapoints renumbered, and the datapoints of the region after
\* the nodes, then the datapoints, have been read into it.
LoadDataResult(nodes, datapoints) ==
    LET idle == [called |-> TRUE, raised |-> FALSE, nodes |-> nodes,
                 datapoints |-> datapoints, offset |-> FALSE, identifierOffset |-> 0,
                 renumbered |-> datapoints, iterations |-> 0, ended |-> TRUE,
                 merged |-> {}, region |-> nodes \cup datapoints]
        grown == GrowOffset(AtLeastZero(getMaximumNodeIdentifier(datapoints)),
                            AtLeastZero(getMaximumNodeIdentifier(nodes)), FirstOffset)
        moved == Renumber(datapoints, grown.identifierOffset, 0, Cardinality(datapoints) + 1)
    IN  IF nodes = {} \/ datapoints = {} THEN idle
        ELSE IF grown.raised
             THEN [idle EXCEPT !.raised = TRUE, !.offset = TRUE,
                               !.identifierOffset = grown.identifierOffset,
                               !.region = {}]
        ELSE IF moved.raised \/ ~moved.ended
             THEN [idle EXCEPT !.raised = moved.raised, !.offset = TRUE,
                               !.identifierOffset = grown.identifierOffset,
                               !.renumbered = moved.datapoints,
                               !.iterations = moved.iterations,
                               !.ended = moved.ended, !.region = {}]
        ELSE [idle EXCEPT !.offset = TRUE,
                          !.identifierOffset = grown.identifierOffset,
                          !.renumbered = moved.datapoints,
                          !.iterations = moved.iterations,
                          !.merged = nodes \cap moved.datapoints,
                          !.region = nodes \cup moved.datapoints]

InitOffsets ==
    /\ InitFitter
    /\ scene = NoScene
    /\ autoAlign = NotCalled
    /\ sample = NotCalled
    /\ penalties = NotCalled
    /\ markerLocations = NotCalled
    /\ projections = NotCalled
    /\ written = NotCalled
    /\ search = NotCalled
    /\ offsets \in {[called |-> FALSE, nodes |-> n, datapoints |-> d] :
                        n \in SUBSET Identifiers, d \in SUBSET Identifiers}

\* _loadData()
LoadData ==
    /\ ~offsets.called
    /\ "nodes" \in DOMAIN offsets
    /\ offsets' = LoadDataResult(offsets.nodes, offsets.datapoints)
    /\ UNCHANGED <<pipelineVars, settingsVars, scene, autoAlign, sample, penalties,
                   markerLocations, projections, written, search>>

NextOffsets == LoadData

SpecOffsets == InitOffsets /\ [][NextOffsets]_vars

\* Data read with both nodes and datapoints.
Offsetting ==
    /\ offsets.called
    /\ "offset" \in DOMAIN offsets
    /\ offsets.offset

\* The offsets the first loop can stop at: 100000 * 10^k up to the limit.
RECURSIVE OffsetsFrom(_)
OffsetsFrom(identifierOffset) ==
    IF identifierOffset >= OffsetLimit THEN {identifierOffset}
    ELSE {identifierOffset} \cup OffsetsFrom(identifierOffset * OffsetFactor)

\* C30, the offset and the loops: the offset is the smallest of 100000 * 10^k
\* that no identifier exceeds, an identifier above 10^9 is a fatal error, and
\* the renumbering loop ends, within one iteration per datapoint.
C30_OffsetSmallestAndLoopEnds ==
    Offsetting =>
        LET all == offsets.nodes \cup offsets.datapoints
        IN  /\ offsets.raised <=> (\E identifier \in all : identifier > OffsetLimit)
            /\ ~offsets.raised =>
                  /\ offsets.identifierOffset \in OffsetsFrom(FirstOffset)
                  /\ \A identifier \in all : identifier <= offsets.identifierOffset
                  /\ \A smaller \in OffsetsFrom(FirstOffset) :
                        smaller < offsets.identifierOffset =>
                            \E identifier \in all : identifier > smaller
                  /\ offsets.ended
                  /\ offsets.iterations <= Cardinality(offsets.datapoints)

\* C30, the datapoints after offsetting: none has the identifier of a node,
\* so none of the nodes read as datapoints meets a datapoint.
C30_NoDatapointMeetsANode ==
    (Offsetting /\ ~offsets.raised) =>
        /\ offsets.renumbered \cap offsets.nodes = {}
        /\ offsets.merged = {}
        /\ Cardinality(offsets.region)
              = Cardinality(offsets.nodes) + Cardinality(offsets.datapoints)

\* C30: with nodes and datapoints in the data, the offset is the smallest of
\* 100000 * 10^k no identifier exceeds, the renumbering loop ends, identifiers
\* above 10^9 are a fatal error, and afterwards no datapoint has the
\* identifier of a node.
C30_OffsetSeparatesIdentifiers ==
    C30_OffsetSmallestAndLoopEnds /\ C30_NoDatapointMeetsANode

\* C30, a node and a datapoint with the identifier of the chosen offset are
\* read into the region as one datapoint.
C30_MergedAtOffset ==
    /\ Offsetting /\ ~offsets.raised
    /\ offsets.identifierOffset \in offsets.nodes \cap offsets.datapoints
    /\ offsets.identifierOffset \in offsets.merged
    /\ offsets.iterations > 0

\* C30, when no datapoint has the identifier of the chosen offset, no
\* datapoint meets a node.
C30_SeparateUnlessAtOffset ==
    (Offsetting /\ ~offsets.raised
        /\ offsets.identifierOffset \notin offsets.nodes \cap offsets.datapoints) =>
        C30_NoDatapointMeetsANode
====
